---- MODULE Spec2Model ----
(***************************************************************************)
(* Mesh, a speedcubing practice timer (src/main.js, second variant,       *)
(* lines 659-2179): the session store, the statistics engine, the timer    *)
(* state machine, the phase-split (mesh) completion protocol and the       *)
(* split-ratio adjustment.                                                 *)
(*                                                                         *)
(* Numbers.  Durations are milliseconds.  A quotient a / b computed by the *)
(* code is kept exact as the pair <<a, b>>; <<0, 0>> is the NaN of 0 / 0.   *)
(* Ratios are kept in thousandths (0.2 is 200), so time * ratio is kept in *)
(* thousandths of a millisecond; a ratio that is NaN is the value NaN       *)
(* defined below.  null, and an empty object {}, is <<>>.                  *)
(***************************************************************************)
EXTENDS Integers, Sequences, FiniteSets, TLC

VARIABLES
  sessions,              \* State.sessions
  currentSessionId,      \* State.currentSessionId
  timerState,            \* State.timerState
  timerValue,            \* State.timerValue
  intervalId,            \* State.intervalId: Null, or the handle of the 10 ms interval
  inspectionIntervalId,  \* State.inspectionIntervalId
  inspectionTime,        \* State.inspectionTime
  spacePressed,          \* State.spacePressed
  settings,              \* State.settings (meshBar, confirmDelete, typingMode)
  inspectionToggle,      \* the checkbox #inspectionToggle
  currentSolve,          \* State.currentSolve
  currentScramble,       \* State.currentScramble
  meshSplits,            \* State.meshSplits, in thousandths
  confirmCallback,       \* State.confirmCallback
  openModals,            \* the modals currently shown (class 'hidden' removed)
  meshTimeouts,          \* showMeshBar's setTimeout callbacks not yet run
  activeIntervals,       \* the host's live setInterval registrations, per kind
  now,                   \* Date.now()
  stats,                 \* what updateStats last wrote to the statistics panel
  sessionList,           \* what updateSessionList last wrote: one average per session
  storage,               \* localStorage['meshData']
  editingSessionId,      \* State.editingSessionId
  typingInput,           \* the value of the field #typingInput, a sequence of characters
  listenersAttached,     \* init() has reached attachEventListeners()
  goalSelect,            \* the value of the select #goalSelect ("" for no goal)
  goalTable,             \* what updateGoalTable last wrote to #goalTable
  analyticsContent,      \* what showAnalytics last wrote to #analyticsContent
  editingSolveId,        \* State.editingSolveId: Null, or <<id>>
  scrambler              \* the locals of a running generateScramble call

vars == << sessions, currentSessionId, timerState, timerValue, intervalId,
           inspectionIntervalId, inspectionTime, spacePressed, settings,
           inspectionToggle, currentSolve, currentScramble, meshSplits,
           confirmCallback, openModals, meshTimeouts, activeIntervals, now,
           stats, sessionList, storage, editingSessionId, typingInput,
           listenersAttached, goalSelect, goalTable, analyticsContent,
           editingSolveId, scrambler >>

goalVars == << goalSelect, goalTable, analyticsContent >>

(***************************************************************************)
(* Bounds of the model                                                     *)
(***************************************************************************)
MaxSolves == 1        \* results per session in the application specification
MaxStatSolves == 5    \* results per session in the statistics specification
MaxTimeouts == 1      \* pending mesh-bar timeouts
MaxNow == 3           \* clock readings
MaxSessions == 3      \* sessions a #newSession click may lead to

Null == <<>>
\* The undefined (or null) that stands where a session id is expected
NoId == 0 - 1

\* Entries typed in the statistics specification (a text is the sequence of
\* its characters), and values the 10 ms tick can leave in State.timerValue
\* (0 when the timer is stopped before its first tick).
TypedInputs == { <<"1", "0">>, <<"1", "0", "+">>, <<"d", "n", "f">> }
\* Entries for the typing field while a timed solve may be parked
EntryInputs == TypedInputs \cup { <<"a", "b", "c">>, <<"0">> }
TickTimes == {0, 9000}
Scrambles == {"R U F", "L D B"}
\* solve.penalty; "none" stands for the null of an unpenalised solve
Penalties == {"none", "+2", "DNF"}
\* What the metrics form can hold when Save is pressed: a number field is
\* Null when left blank, <<v>> when it holds the number v.
FormInputs ==
  { [crossMoves |-> Null, crossRotations |-> Null, f2lRotations |-> Null,
     f2lPause |-> FALSE, llRecognition |-> FALSE],
    [crossMoves |-> <<8>>, crossRotations |-> <<0>>, f2lRotations |-> <<3>>,
     f2lPause |-> TRUE, llRecognition |-> FALSE] }
\* What getBoundingClientRect returns for .mesh-track: all zeros while the bar
\* is not laid out, its box otherwise
TrackRects == { [left |-> 0, width |-> 0], [left |-> 100, width |-> 1000] }
\* e.clientX / touch.clientX of a move event
\* The #sessionType options offered to the model, and the name typed on rename
SessionTypes == {"normal", "cross"}
NewNames == {<<"A">>}
\* JSON documents.  An object is a record holding the keys it has; a text
\* JSON.parse rejects is [json |-> "garbage"], the text "null" is
\* [json |-> "null"], and a missing localStorage item is [json |-> "absent"].
\* A sessions value that is not an array is held under sessionsNotArray.
\* Backup files offered to importData by the session store: an empty sessions
\* array, two sessions of an older backup, and a file without a sessions key.
BackupSolve ==
  [id |-> 0, time |-> 10000, scramble |-> "R U F", splits |-> Null,
   metrics |-> Null, penalty |-> "+2", typed |-> TRUE]
TwoSessionBackup ==
  << [id |-> 0, type |-> "normal", name |-> <<"Normal", 1>>,
      solves |-> <<BackupSolve>>],
     [id |-> 1, type |-> "cross", name |-> <<"Cross", 2>>, solves |-> <<>>] >>
ImportFiles ==
  { [sessions |-> <<>>], [sessions |-> TwoSessionBackup], [version |-> 2] }
\* Entries typed in the typing specification: every text of at most two of
\* the characters below, and longer ones of each form the parser tells apart
ShortChars == {"1", ".", ":", "+", "a", " ", "-"}
ParseInputs ==
  {<<>>} \cup {<<c>> : c \in ShortChars}
    \cup {<<c, d>> : c \in ShortChars, d \in ShortChars}
    \cup { <<"1", ":", "0", "5", ".", "3", "2">>, <<"1", "2", ".", "5", "+">>,
           <<"1", "2", ".", "5", "+", "2">>, <<"a", "b", "c">>, <<"0">>,
           <<"d", "n", "f">>, <<"D", "N", "F">>, <<" ", "D", "n", "f", " ">>,
           <<"d", "n", "f", "+">>, <<"1", "2", "a", "b", "c">>,
           <<"1", ":", "2", ":", "3">>, <<"1", ":", "7", "5">>, <<"0", ":", "0", "0">>,
           <<"3", "6", "0", "0">>, <<"3", "6", "0", "0", ".", "0", "0", "1">>,
           <<"6", "0", ":", "0", "0">>, <<"6", "0", ":", "0", "1">>,
           <<"-", "1", ":", "3", "0">>, <<"0", ".", "0", "0", "1">>,
           <<"1", "2", ".", "5", " ", "+", "2">>, <<"1", "2", ".", "5", "+", "+">>,
           <<"5", "+", "3">>, <<"+", "2">>, <<"2", "+", "2">> }
\* What localStorage can hold when the page is first opened: nothing, a text
\* that is not JSON, the text "null", an object without the persisted keys
\* (a number or a string reads the same), an empty sessions array alone or
\* with the other keys, a sessions value that is not an array, and a sessions
\* array whose element is not a Session
FirstUseItems ==
  { [json |-> "absent"], [json |-> "garbage"], [json |-> "null"], [version |-> 2],
    [sessions |-> <<>>],
    [sessions |-> <<>>, currentSessionId |-> 0,
     settings |-> [meshBar |-> TRUE, confirmDelete |-> TRUE, typingMode |-> FALSE],
     meshSplits |-> <<200, 650>>],
    [sessionsNotArray |-> 5],
    [sessions |-> << [id |-> NoId, type |-> "", name |-> Null, solves |-> <<>>] >>] }
\* A timed result with splits and metrics, two of them recorded as 0
MeasuredSolve ==
  [id |-> 2, time |-> 9000,  scramble |-> "L D B",
   splits |-> [cross |-> 1800000, f2l |-> 4050000, ll |-> 3150000],
   metrics |-> [crossMoves |-> <<0>>, crossRotations |-> Null, f2lRotations |-> <<0>>,
                f2lPause |-> FALSE, llRecognition |-> TRUE],
   penalty |-> "none", typed |-> FALSE]
\* Results of older backups: a timed one with three rotations, a timed one
\* whose form was left blank, and a slow one
RotationSolve ==
  [id |-> 3, time |-> 9000,  scramble |-> "R U F",
   splits |-> [cross |-> 1800000, f2l |-> 4050000, ll |-> 3150000],
   metrics |-> [crossMoves |-> <<8>>, crossRotations |-> <<1>>, f2lRotations |-> <<3>>,
                f2lPause |-> TRUE, llRecognition |-> FALSE],
   penalty |-> "none", typed |-> FALSE]
BlankFormSolve ==
  [id |-> 4, time |-> 30000,  scramble |-> "R U F",
   splits |-> [cross |-> 6000000, f2l |-> 13500000, ll |-> 10500000],
   metrics |-> [crossMoves |-> Null, crossRotations |-> Null, f2lRotations |-> Null,
                f2lPause |-> FALSE, llRecognition |-> FALSE],
   penalty |-> "none", typed |-> FALSE]
\* Files offered to importData by the goals specification: one session each
GoalSession(solves) == << [id |-> 5, type |-> "normal", name |-> <<"Normal", 1>>,
                          solves |-> solves] >>
GoalDocuments ==
  { [sessions |-> GoalSession(<<MeasuredSolve>>)],
    [sessions |-> GoalSession(<<MeasuredSolve, RotationSolve, BackupSolve>>)],
    [sessions |-> GoalSession(<<BackupSolve>>)],
    [sessions |-> GoalSession(<<BlankFormSolve, RotationSolve>>)] }
\* A backup offered to importData by the results specification: a session of
\* five results and a session of one
StoredSolve(id, time, penalty, typed) ==
  [id |-> id, time |-> time, scramble |-> "L D B", splits |-> Null, metrics |-> Null,
   penalty |-> penalty, typed |-> typed]
ResultDocuments ==
  { [sessions |->
       << [id |-> 5, type |-> "normal", name |-> <<"Normal", 1>>,
           solves |-> << StoredSolve(11, 10000, "+2", TRUE),
                         StoredSolve(12, 12000, "none", FALSE),
                         StoredSolve(13, 9000, "DNF", FALSE),
                         StoredSolve(14, 11000, "none", TRUE),
                         StoredSolve(15, 13000, "none", FALSE) >>],
          [id |-> 6, type |-> "cross", name |-> <<"Cross", 2>>,
           solves |-> << StoredSolve(16, 8000, "none", FALSE) >>] >>] }
\* The options of #goalSelect offered to the model
GoalKeys == {"", "sub20", "sub3"}
\* Files offered to importData by the persistence specification
Documents ==
  { [sessions |-> TwoSessionBackup],
    [settings |-> [typingMode |-> TRUE]],
    [meshSplits |-> <<300, 700>>],
    [sessions |-> << [id |-> 3, type |-> "cross", name |-> <<"Cross", 1>>,
                      solves |-> <<MeasuredSolve>>] >>,
     settings |-> [meshBar |-> FALSE, confirmDelete |-> FALSE, typingMode |-> FALSE],
     meshSplits |-> <<250, 600>>],
    [version |-> 2],
    [json |-> "garbage"], [json |-> "null"],
    [sessions |-> << [id |-> NoId, type |-> "", name |-> Null, solves |-> <<>>] >>],
    [sessionsNotArray |-> 5, settings |-> [confirmDelete |-> FALSE]] }
CoarseClientXs == {0, 600}
ClientXs == {100 + 50 * k : k \in 0..20} \cup {-4900, 0, 20100}

(***************************************************************************)
(* Program constants                                                       *)
(***************************************************************************)
Infinity == 1000000000
PlusTwo == 2000
InspectionStart == 15
RatioScale == 1000

\* NaN, the value of 0 / 0.  Arithmetic on it gives NaN, every comparison
\* with it is false, and Math.min / Math.max return it.
NaN == 0 - Infinity - 1
IsNaN(x) == x = NaN
Plus(a, b) == IF IsNaN(a) \/ IsNaN(b) THEN NaN ELSE a + b
Minus(a, b) == IF IsNaN(a) \/ IsNaN(b) THEN NaN ELSE a - b
Times(a, b) == IF IsNaN(a) \/ IsNaN(b) THEN NaN ELSE a * b
GreaterEq(a, b) == ~IsNaN(a) /\ ~IsNaN(b) /\ a >= b
LessEq(a, b) == ~IsNaN(a) /\ ~IsNaN(b) /\ a <= b
MathMin2(a, b) == IF IsNaN(a) \/ IsNaN(b) THEN NaN ELSE IF a <= b THEN a ELSE b
MathMax2(a, b) == IF IsNaN(a) \/ IsNaN(b) THEN NaN ELSE IF a >= b THEN a ELSE b
\* JSON.stringify writes NaN as null
\* The null JSON.stringify writes where a number is NaN
JsonNull == NaN - 1
JsonNumber(x) == IF IsNaN(x) THEN JsonNull ELSE x

(***************************************************************************)
(* Array helpers                                                           *)
(***************************************************************************)
Max2(a, b) == IF a >= b THEN a ELSE b
Min2(a, b) == IF a <= b THEN a ELSE b

\* arr.slice(-n), n > 0: the last n elements, the whole array when n > length
SliceLast(arr, n) == SubSeq(arr, Max2(1, Len(arr) - n + 1), Len(arr))

\* arr.slice(1, -1)
SliceInner(arr) == SubSeq(arr, 2, Len(arr) - 1)

\* arr.filter(keep) is SelectSeq(arr, keep)

\* arr.reduce((a, b) => a + b, 0)
RECURSIVE ReduceSum(_)
ReduceSum(arr) == IF arr = <<>> THEN 0 ELSE Head(arr) + ReduceSum(Tail(arr))

\* [...times].sort((a, b) => a - b): ascending, Infinity last
RECURSIVE InsertSorted(_, _)
InsertSorted(x, arr) ==
  IF arr = <<>> THEN <<x>>
  ELSE IF x < Head(arr) THEN <<x>> \o arr
       ELSE <<Head(arr)>> \o InsertSorted(x, Tail(arr))

RECURSIVE SortAscending(_)
SortAscending(arr) ==
  IF arr = <<>> THEN <<>>
  ELSE InsertSorted(Head(arr), SortAscending(Tail(arr)))

\* Math.min(...times), Math.max(...times) of a non-empty array
RECURSIVE MathMin(_)
MathMin(arr) ==
  IF Len(arr) = 1 THEN arr[1] ELSE Min2(Head(arr), MathMin(Tail(arr)))

RECURSIVE MathMax(_)
MathMax(arr) ==
  IF Len(arr) = 1 THEN arr[1] ELSE Max2(Head(arr), MathMax(Tail(arr)))

(***************************************************************************)
(* Statistics engine                                                       *)
(***************************************************************************)
IsSolve(s) == s # Null

getEffectiveTime_rawPlus2(solve) ==
  IF solve.penalty = "DNF" THEN Infinity ELSE solve.time

getEffectiveTime(solve) ==
  IF solve.penalty = "DNF" THEN Infinity
  ELSE IF solve.penalty = "+2" THEN solve.time + PlusTwo
  ELSE solve.time

EffectiveTimes(solves) == [i \in 1..Len(solves) |-> getEffectiveTime(solves[i])]

NotDNF(s) == s.penalty # "DNF"
IsDNF(s) == s.penalty = "DNF"

\* Variants of calculateAverage with one rule changed each.
calculateAverage_wholeSession(solves, n) ==
  IF Len(solves) < n THEN Null
  ELSE IF Len(SelectSeq(solves, IsDNF)) > 1 THEN Null
  ELSE LET trimmed == SliceInner(SortAscending(EffectiveTimes(solves)))
       IN IF \E i \in 1..Len(trimmed) : trimmed[i] = Infinity THEN Null
          ELSE <<ReduceSum(trimmed), Len(trimmed)>>

calculateAverage_keepsLowestWithVoid(solves, n) ==
  IF Len(solves) < n THEN Null
  ELSE LET recent == SliceLast(solves, n)
           sorted == SortAscending(EffectiveTimes(recent))
           trimmed == IF Len(SelectSeq(recent, IsDNF)) = 1
                      THEN SubSeq(sorted, 1, Len(sorted) - 1)
                      ELSE SliceInner(sorted)
       IN IF Len(SelectSeq(recent, IsDNF)) > 1 THEN Null
          ELSE IF \E i \in 1..Len(trimmed) : trimmed[i] = Infinity THEN Null
          ELSE <<ReduceSum(trimmed), Len(trimmed)>>

calculateAverage_skipsVoids(solves, n) ==
  IF Len(solves) < n THEN Null
  ELSE LET valid == EffectiveTimes(SelectSeq(SliceLast(solves, n), NotDNF))
           trimmed == SliceInner(SortAscending(valid))
       IN <<ReduceSum(trimmed), Len(trimmed)>>

calculateAverage_noLengthGuard(solves, n) ==
  LET recent == SliceLast(solves, n)
      trimmed == SliceInner(SortAscending(EffectiveTimes(recent)))
  IN IF Len(SelectSeq(recent, IsDNF)) > 1 THEN Null
     ELSE IF \E i \in 1..Len(trimmed) : trimmed[i] = Infinity THEN Null
     ELSE <<ReduceSum(trimmed), Len(trimmed)>>

calculateAverage(solves, n) ==
  IF Len(solves) < n THEN Null
  ELSE LET recent == SliceLast(solves, n)
           dnfCount == Len(SelectSeq(recent, IsDNF))
           times == EffectiveTimes(recent)
           sorted == SortAscending(times)
           trimmed == SliceInner(sorted)
       IN IF dnfCount > 1 THEN Null
          ELSE IF \E i \in 1..Len(trimmed) : trimmed[i] = Infinity THEN Null
          ELSE <<ReduceSum(trimmed), Len(trimmed)>>

Num(v) == <<v, 1>>

\* State.sessions.find(s => s.id === id): the index of the first match, 0 if none
FindSession(ss, id) ==
  IF \E i \in 1..Len(ss) : ss[i].id = id
  THEN CHOOSE i \in 1..Len(ss) : ss[i].id = id /\ \A j \in 1..(i - 1) : ss[j].id # id
  ELSE 0

getCurrentSession(ss, cid) == FindSession(ss, cid)

HasNullSolve(solves) == \E i \in 1..Len(solves) : ~IsSolve(solves[i])

NoStats ==
  [ao5 |-> Null, ao12 |-> Null, ao50 |-> Null, ao100 |-> Null,
   best |-> Null, worst |-> Null, mean |-> Null, count |-> 0]

\* Variants of updateStats with one rule changed each.
updateStats_countsVoids(ss, cid, old) ==
  LET k == getCurrentSession(ss, cid) IN
  IF k = 0 \/ Len(ss[k].solves) = 0 THEN NoStats
  ELSE IF HasNullSolve(ss[k].solves) THEN old
  ELSE LET solves == ss[k].solves
           times == EffectiveTimes(solves)
       IN [ao5 |-> calculateAverage(solves, 5), ao12 |-> calculateAverage(solves, 12),
           ao50 |-> calculateAverage(solves, 50), ao100 |-> calculateAverage(solves, 100),
           best |-> Num(MathMin(times)), worst |-> Num(MathMax(times)),
           mean |-> <<ReduceSum(times), Len(times)>>, count |-> Len(solves)]

updateStats_meanOverAll(ss, cid, old) ==
  LET k == getCurrentSession(ss, cid) IN
  IF k = 0 \/ Len(ss[k].solves) = 0 THEN NoStats
  ELSE IF HasNullSolve(ss[k].solves) THEN old
  ELSE LET solves == ss[k].solves
           times == EffectiveTimes(SelectSeq(solves, NotDNF))
       IN [ao5 |-> calculateAverage(solves, 5), ao12 |-> calculateAverage(solves, 12),
           ao50 |-> calculateAverage(solves, 50), ao100 |-> calculateAverage(solves, 100),
           best |-> IF Len(times) > 0 THEN Num(MathMin(times)) ELSE Null,
           worst |-> IF Len(times) > 0 THEN Num(MathMax(times)) ELSE Null,
           mean |-> IF Len(times) > 0 THEN <<ReduceSum(times), Len(solves)>> ELSE Null,
           count |-> Len(solves)]

\* updateStats: the values handed to formatTime for each field of the panel,
\* Null where the panel shows '-'.  A null element in the sequence makes
\* s.penalty throw, and the panel keeps what it showed (old).
updateStats(ss, cid, old) ==
  LET k == getCurrentSession(ss, cid) IN
  IF k = 0 \/ Len(ss[k].solves) = 0 THEN NoStats
  ELSE IF HasNullSolve(ss[k].solves) THEN old
  ELSE LET solves == ss[k].solves
           validSolves == SelectSeq(solves, NotDNF)
           times == EffectiveTimes(validSolves)
       IN [ao5 |-> calculateAverage(solves, 5), ao12 |-> calculateAverage(solves, 12),
           ao50 |-> calculateAverage(solves, 50), ao100 |-> calculateAverage(solves, 100),
           best |-> IF Len(times) > 0 THEN Num(MathMin(times)) ELSE Null,
           worst |-> IF Len(times) > 0 THEN Num(MathMax(times)) ELSE Null,
           mean |-> IF Len(times) > 0 THEN <<ReduceSum(times), Len(times)>> ELSE Null,
           count |-> Len(solves)]

\* The 'Avg:' line updateSessionList writes for one session (Null: no line)
SessionAvg(session) ==
  IF Len(session.solves) > 0
  THEN LET validSolves == SelectSeq(session.solves, NotDNF)
           times == EffectiveTimes(validSolves)
       IN IF Len(validSolves) > 0 THEN <<ReduceSum(times), Len(times)>> ELSE Null
  ELSE Null

\* updateSessionList: the list is emptied and one item is added per session;
\* a session holding a null element throws and ends the rebuild there.
updateSessionList(ss) ==
  LET bad == {i \in 1..Len(ss) : HasNullSolve(ss[i].solves)}
      n == IF bad = {} THEN Len(ss)
           ELSE (CHOOSE i \in bad : \A j \in bad : i <= j) - 1
  IN [i \in 1..n |-> SessionAvg(ss[i])]

\* updateUI: updateStats, then updateSessionList unless updateStats threw
StatsThrows(ss, cid) ==
  LET k == getCurrentSession(ss, cid) IN k # 0 /\ HasNullSolve(ss[k].solves)

updateUI(ss, cid) ==
  /\ stats' = updateStats(ss, cid, stats)
  /\ sessionList' = IF StatsThrows(ss, cid) THEN sessionList ELSE updateSessionList(ss)

\* An array element that is not a Session object (here {}): it has no id and
\* no solves, so session.solves.length throws
JunkSession == [id |-> NoId, type |-> "", name |-> Null, solves |-> <<>>]
IsSessionObject(x) == x.id # NoId

\* updateUI on a collection that may hold such elements: what the panel and
\* the list show afterwards, and whether a TypeError left updateUI
Render(ss, cid, oldStats, oldList) ==
  LET k == getCurrentSession(ss, cid)
      junk == {i \in 1..Len(ss) : ~IsSessionObject(ss[i])}
  IN IF k # 0 /\ ~IsSessionObject(ss[k])
     THEN [stats |-> oldStats, sessionList |-> oldList, threw |-> TRUE]
     ELSE IF StatsThrows(ss, cid)
     THEN [stats |-> updateStats(ss, cid, oldStats), sessionList |-> oldList,
           threw |-> TRUE]
     ELSE IF junk # {}
     THEN [stats |-> updateStats(ss, cid, oldStats),
           sessionList |-> updateSessionList(
              SubSeq(ss, 1, (CHOOSE i \in junk : \A j \in junk : i <= j) - 1)),
           threw |-> TRUE]
     ELSE [stats |-> updateStats(ss, cid, oldStats),
           sessionList |-> updateSessionList(ss),
           threw |-> \E i \in 1..Len(ss) : HasNullSolve(ss[i].solves)]

\* { ...a, ...b }
Merge(a, b) ==
  [key \in DOMAIN a \cup DOMAIN b |-> IF key \in DOMAIN b THEN b[key] ELSE a[key]]

IsObject(doc) == "json" \notin DOMAIN doc

\* JSON.stringify followed by JSON.parse, on the values the state holds: a
\* number that is NaN comes back as null, everything else as it was
JsonSplits(sp) ==
  IF sp = Null THEN Null
  ELSE [cross |-> JsonNumber(sp.cross), f2l |-> JsonNumber(sp.f2l),
        ll |-> JsonNumber(sp.ll)]

JsonSolve(solve) ==
  IF solve = Null THEN Null ELSE [solve EXCEPT !.splits = JsonSplits(@)]

JsonSessions(ss) ==
  [i \in 1..Len(ss) |->
     [ss[i] EXCEPT !.solves = [j \in 1..Len(@) |-> JsonSolve(@[j])]]]

JsonRatios(ms) == [i \in 1..Len(ms) |-> JsonNumber(ms[i])]

\* saveState: the document JSON.stringify writes for the four persisted
\* parts; a key whose value is undefined is left out
Snapshot(ss, cid, st, ms) ==
  IF cid = NoId
  THEN [sessions |-> JsonSessions(ss), settings |-> st, meshSplits |-> JsonRatios(ms)]
  ELSE [sessions |-> JsonSessions(ss), currentSessionId |-> cid, settings |-> st,
        meshSplits |-> JsonRatios(ms)]

\* The locals of generateScramble while no call is running
NoScramble ==
  [pc |-> "idle", i |-> 0, move |-> "", lastMove |-> "", lastAxis |-> "",
   pushed |-> 0, token |-> <<>>, before |-> <<>>]

\* generateScramble: a random move sequence, here one of scrs
generateScramble(scrs) == \E sc \in scrs : currentScramble' = sc

SomeHandle == <<"interval">>

PushSolve(ss, k, solve) == [ss EXCEPT ![k].solves = Append(@, solve)]

(***************************************************************************)
(* Initial state: init() run on an empty localStorage                      *)
(***************************************************************************)
DefaultSettings == [meshBar |-> TRUE, confirmDelete |-> TRUE, typingMode |-> FALSE]

FirstSession ==
  [id |-> 1, type |-> "normal", name |-> <<"Normal", 1>>, solves |-> <<>>]

Init ==
  /\ sessions = <<FirstSession>>
  /\ currentSessionId = 1
  /\ timerState = "idle"
  /\ timerValue = 0
  /\ intervalId = Null
  /\ inspectionIntervalId = Null
  /\ inspectionTime = InspectionStart
  /\ spacePressed = FALSE
  /\ settings = DefaultSettings
  /\ inspectionToggle \in BOOLEAN
  /\ currentSolve = Null
  /\ currentScramble \in Scrambles
  /\ meshSplits = <<200, 650>>
  /\ confirmCallback = Null
  /\ openModals = {}
  /\ meshTimeouts = 0
  /\ activeIntervals = [timer |-> 0, inspection |-> 0]
  /\ now = 1
  /\ stats = NoStats
  /\ sessionList = <<Null>>
  /\ storage = Snapshot(<<FirstSession>>, 1, DefaultSettings, <<200, 650>>)
  /\ editingSessionId = Null
  /\ typingInput = <<>>
  /\ listenersAttached = TRUE
  /\ goalSelect = ""
  /\ goalTable = Null
  /\ analyticsContent = Null
  /\ editingSolveId = Null
  /\ scrambler = NoScramble

timerVars == << timerState, timerValue, intervalId, inspectionIntervalId,
                inspectionTime, spacePressed, activeIntervals >>
sessionVars == << sessions, currentSessionId >>
uiVars == << stats, sessionList >>
meshVars == << currentSolve, meshSplits, meshTimeouts >>

(***************************************************************************)
(* Session store                                                           *)
(***************************************************************************)
typeLabels(type) ==
  CASE type = "normal" -> "Normal"
    [] type = "cross" -> "Cross"
    [] OTHER -> type

\* A variant of createSession that keeps the session that was current
createSession_keepsCurrent(ss, cid, type, t) ==
  [sessions |-> Append(ss, [id |-> t, type |-> type,
                            name |-> <<typeLabels(type), Len(ss) + 1>>,
                            solves |-> <<>>]),
   currentSessionId |-> cid]

\* createSession(type) at Date.now() = t: the collection it leaves
createSession(ss, cid, type, t) ==
  [sessions |-> Append(ss, [id |-> t, type |-> type,
                            name |-> <<typeLabels(type), Len(ss) + 1>>,
                            solves |-> <<>>]),
   currentSessionId |-> t]

RemoveAt(arr, index) == SubSeq(arr, 1, index - 1) \o SubSeq(arr, index + 1, Len(arr))

\* A variant of deleteSession that keeps a deleted session as the current one
deleteSession_keepsCurrentId(ss, cid, sessionId, t) ==
  LET index == FindSession(ss, sessionId) IN
  IF index = 0 THEN [sessions |-> ss, currentSessionId |-> cid]
  ELSE LET rest == RemoveAt(ss, index) IN
       IF Len(rest) = 0 THEN createSession(rest, cid, "normal", t)
       ELSE [sessions |-> rest, currentSessionId |-> cid]

\* deleteSession(sessionId) at Date.now() = t: the collection it leaves
deleteSession(ss, cid, sessionId, t) ==
  LET index == FindSession(ss, sessionId) IN
  IF index = 0 THEN [sessions |-> ss, currentSessionId |-> cid]
  ELSE LET rest == RemoveAt(ss, index) IN
       IF Len(rest) = 0 THEN createSession(rest, cid, "normal", t)
       ELSE IF cid = sessionId THEN [sessions |-> rest, currentSessionId |-> rest[1].id]
       ELSE [sessions |-> rest, currentSessionId |-> cid]

\* The collection c becomes the state; saveState(); updateUI()
StoreCollection(c) ==
  /\ sessions' = c.sessions
  /\ currentSessionId' = c.currentSessionId
  /\ storage' = Snapshot(c.sessions, c.currentSessionId, settings, meshSplits)
  /\ updateUI(c.sessions, c.currentSessionId)

\* #newSession click, some time after the previous event
newSessionClick(cap, types) ==
  /\ Len(sessions) < cap
  /\ now < MaxNow
  /\ now' = now + 1
  /\ \E type \in types :
       StoreCollection(createSession(sessions, currentSessionId, type, now'))
  /\ UNCHANGED << timerVars, meshVars, settings, inspectionToggle, currentScramble,
                  confirmCallback, openModals, editingSessionId, typingInput,
                  listenersAttached, goalVars, editingSolveId, scrambler >>

\* Click on an item of the session list
sessionItemClick ==
  /\ \E i \in 1..Len(sessionList) :
       StoreCollection([sessions |-> sessions, currentSessionId |-> sessions[i].id])
  /\ UNCHANGED << timerVars, meshVars, settings, inspectionToggle, currentScramble,
                  confirmCallback, openModals, now, typingInput, listenersAttached, goalVars, editingSolveId, scrambler, editingSessionId >>

\* Click on the edit button of an item of the session list; editingSessionId
\* is Null or a one-element tuple holding the id
showSessionEditModal ==
  /\ \E i \in 1..Len(sessionList) : editingSessionId' = <<sessions[i].id>>
  /\ openModals' = openModals \cup {"sessionEdit"}
  /\ UNCHANGED << sessionVars, timerVars, uiVars, meshVars, settings, inspectionToggle,
                  currentScramble, confirmCallback, now, typingInput, listenersAttached, goalVars, editingSolveId, scrambler, storage >>

\* A variant of renameSession that renames the first session when no session
\* has the id
renameSession_unknownRenamesFirst(sessionId, newName) ==
  LET k == IF FindSession(sessions, sessionId) # 0 THEN FindSession(sessions, sessionId) ELSE 1
  IN /\ sessions' = [sessions EXCEPT ![k].name = newName]
     /\ storage' = Snapshot(sessions', currentSessionId, settings, meshSplits)
     /\ updateUI(sessions', currentSessionId)

\* renameSession(sessionId, newName)
renameSession(sessionId, newName) ==
  LET k == FindSession(sessions, sessionId) IN
  IF k # 0
  THEN /\ sessions' = [sessions EXCEPT ![k].name = newName]
       /\ storage' = Snapshot(sessions', currentSessionId, settings, meshSplits)
       /\ updateUI(sessions', currentSessionId)
  ELSE UNCHANGED << sessions, storage, uiVars >>

\* #saveSessionEdit click; an empty name renames nothing, and neither does an
\* edited id that is not truthy (null, undefined, 0)
saveSessionEdit(names) ==
  /\ "sessionEdit" \in openModals
  /\ \E newName \in names \cup {<<>>} :
       IF newName # <<>> /\ editingSessionId # Null /\ editingSessionId[1] \notin {0, NoId}
       THEN renameSession(editingSessionId[1], newName)
       ELSE UNCHANGED << sessions, storage, uiVars >>
  /\ openModals' = openModals \ {"sessionEdit"}
  /\ editingSessionId' = Null
  /\ UNCHANGED << currentSessionId, timerVars, meshVars, settings, inspectionToggle,
                  currentScramble, confirmCallback, now, typingInput, listenersAttached, goalVars, editingSolveId, scrambler >>

\* #deleteSession click in the session edit modal
deleteCurrentSession ==
  /\ "sessionEdit" \in openModals
  /\ confirmCallback' = [op |-> "deleteSession", session |-> Null]
  /\ openModals' = openModals \cup {"confirm"}
  /\ UNCHANGED << sessionVars, timerVars, uiVars, meshVars, settings, inspectionToggle,
                  currentScramble, now, typingInput, listenersAttached, goalVars, editingSolveId, scrambler, storage, editingSessionId >>

\* #clearHistory click
clearHistoryClick ==
  /\ confirmCallback' = [op |-> "clearHistory", session |-> Null]
  /\ openModals' = openModals \cup {"confirm"}
  /\ UNCHANGED << sessionVars, timerVars, uiVars, meshVars, settings, inspectionToggle,
                  currentScramble, now, typingInput, listenersAttached, goalVars, editingSolveId, scrambler, storage, editingSessionId >>

\* The callback of deleteCurrentSession
deleteSessionConfirmed ==
  /\ IF editingSessionId # Null /\ FindSession(sessions, editingSessionId[1]) # 0
     THEN StoreCollection(deleteSession(sessions, currentSessionId,
                                        editingSessionId[1], now))
     ELSE UNCHANGED << sessions, currentSessionId, storage, uiVars >>
  /\ editingSessionId' = Null
  /\ openModals' = openModals \ {"sessionEdit", "confirm"}

\* A variant of the callback that empties every session
clearHistoryConfirmed_everySession ==
  LET k == getCurrentSession(sessions, currentSessionId) IN
  /\ IF k # 0
     THEN /\ sessions' = [i \in 1..Len(sessions) |-> [sessions[i] EXCEPT !.solves = <<>>]]
          /\ storage' = Snapshot(sessions', currentSessionId, settings, meshSplits)
          /\ updateUI(sessions', currentSessionId)
     ELSE UNCHANGED << sessions, storage, uiVars >>
  /\ openModals' = openModals \ {"confirm"}
  /\ UNCHANGED << currentSessionId, editingSessionId >>

\* The callback of the #clearHistory click
clearHistoryConfirmed ==
  LET k == getCurrentSession(sessions, currentSessionId) IN
  /\ IF k # 0
     THEN /\ sessions' = [sessions EXCEPT ![k].solves = <<>>]
          /\ storage' = Snapshot(sessions', currentSessionId, settings, meshSplits)
          /\ updateUI(sessions', currentSessionId)
     ELSE UNCHANGED << sessions, storage, uiVars >>
  /\ openModals' = openModals \ {"confirm"}
  /\ UNCHANGED << currentSessionId, editingSessionId >>

\* A variant of the import that falls back to the default ratios when the
\* document has none
ImportOf_defaultRatios(data) ==
  IF ~IsObject(data)
  THEN UNCHANGED << sessions, currentSessionId, settings, meshSplits, storage, uiVars >>
  ELSE LET ss == IF "sessions" \in DOMAIN data THEN data.sessions ELSE sessions
           st == IF "settings" \in DOMAIN data THEN Merge(settings, data.settings)
                 ELSE settings
           ms == IF "meshSplits" \in DOMAIN data THEN data.meshSplits ELSE <<200, 650>>
           cid == IF Len(ss) > 0 THEN ss[1].id ELSE currentSessionId
           ui == Render(ss, cid, stats, sessionList)
       IN /\ sessions' = ss
          /\ currentSessionId' = cid
          /\ settings' = st
          /\ meshSplits' = ms
          /\ storage' = Snapshot(ss, cid, st, ms)
          /\ stats' = ui.stats
          /\ sessionList' = ui.sessionList

\* importData's onload callback on the document data
ImportOf(data) ==
  IF ~IsObject(data)
  THEN UNCHANGED << sessions, currentSessionId, settings, meshSplits, storage, uiVars >>
  ELSE LET ss == IF "sessions" \in DOMAIN data THEN data.sessions ELSE sessions
           st == IF "settings" \in DOMAIN data THEN Merge(settings, data.settings)
                 ELSE settings
           ms == IF "meshSplits" \in DOMAIN data THEN data.meshSplits ELSE meshSplits
           cid == IF Len(ss) > 0 THEN ss[1].id ELSE currentSessionId
           ui == Render(ss, cid, stats, sessionList)
       IN /\ sessions' = ss
          /\ currentSessionId' = cid
          /\ settings' = st
          /\ meshSplits' = ms
          /\ storage' = Snapshot(ss, cid, st, ms)
          /\ stats' = ui.stats
          /\ sessionList' = ui.sessionList

\* exportData: the document written to the downloaded file
exportData(ss, st, ms) ==
  [sessions |-> JsonSessions(ss), settings |-> st, meshSplits |-> JsonRatios(ms),
   version |-> 2]

\* importData, with the reader's onload callback, on one of files
importData(files) ==
  /\ \E data \in files : ImportOf(data)
  /\ UNCHANGED << timerVars, currentSolve, meshTimeouts, inspectionToggle,
                  currentScramble, confirmCallback, openModals, now,
                  editingSessionId, typingInput, listenersAttached, goalVars, editingSolveId, scrambler >>

\* The State literal (lines 663-689), as far as it is persisted
StateLiteral ==
  [sessions |-> <<>>, currentSessionId |-> NoId, settings |-> DefaultSettings,
   meshSplits |-> <<200, 650>>]

\* loadState on the localStorage item doc: the persisted parts of State
\* afterwards.  A parse error, and data.sessions on null, throw before the
\* first assignment.
loadState(doc) ==
  IF ~IsObject(doc) THEN StateLiteral
  ELSE [sessions |-> IF "sessions" \in DOMAIN doc THEN doc.sessions ELSE <<>>,
        currentSessionId |-> IF "currentSessionId" \in DOMAIN doc
                             THEN doc.currentSessionId ELSE NoId,
        settings |-> IF "settings" \in DOMAIN doc
                     THEN Merge(DefaultSettings, doc.settings) ELSE DefaultSettings,
        meshSplits |-> IF "meshSplits" \in DOMAIN doc THEN doc.meshSplits
                       ELSE StateLiteral.meshSplits]

\* The page is loaded again: init() on what localStorage holds.  With a
\* sessions value that is not an array State.sessions has no length, no
\* element and no find(): init throws at line 715 or in updateUI.
reload(scrs) ==
  LET l == loadState(storage)
      notArray == IsObject(storage) /\ "sessionsNotArray" \in DOMAIN storage
      created == ~notArray /\ Len(l.sessions) = 0
      c == IF created
           THEN createSession(l.sessions, l.currentSessionId, "normal", now)
           ELSE IF ~notArray /\ l.currentSessionId = NoId
           THEN [sessions |-> l.sessions, currentSessionId |-> l.sessions[1].id]
           ELSE [sessions |-> l.sessions, currentSessionId |-> l.currentSessionId]
      ui == Render(c.sessions, c.currentSessionId, NoStats, <<>>)
  IN
  /\ sessions' = c.sessions
  /\ currentSessionId' = c.currentSessionId
  /\ settings' = l.settings
  /\ meshSplits' = l.meshSplits
  /\ storage' = IF created
                THEN Snapshot(c.sessions, c.currentSessionId, l.settings, l.meshSplits)
                ELSE storage
  /\ timerState' = "idle" /\ timerValue' = 0
  /\ intervalId' = Null /\ inspectionIntervalId' = Null
  /\ inspectionTime' = InspectionStart
  /\ spacePressed' = FALSE
  /\ activeIntervals' = [timer |-> 0, inspection |-> 0]
  /\ currentSolve' = Null /\ meshTimeouts' = 0
  /\ confirmCallback' = Null /\ openModals' = {} /\ editingSessionId' = Null
  /\ typingInput' = <<>>
  /\ generateScramble(scrs)
  /\ stats' = IF notArray THEN NoStats ELSE ui.stats
  /\ sessionList' = IF notArray THEN <<>> ELSE ui.sessionList
  /\ listenersAttached' = (~notArray /\ ~ui.threw)
  /\ goalSelect' = ""
  /\ goalTable' = Null
  /\ analyticsContent' = Null
  /\ editingSolveId' = Null
  /\ UNCHANGED << inspectionToggle, now, scrambler >>

(***************************************************************************)
(* Typing mode and the keyboard shortcuts on the last solve                *)
(***************************************************************************)
\* #typingModeToggle change, and the 't' shortcut
toggleTypingMode ==
  /\ settings' = [settings EXCEPT !.typingMode = ~@]
  /\ storage' = Snapshot(sessions, currentSessionId, settings', meshSplits)
  /\ UNCHANGED << sessionVars, timerVars, uiVars, meshVars, inspectionToggle,
                  currentScramble, confirmCallback, openModals, now, typingInput, listenersAttached, goalVars, editingSolveId, scrambler, editingSessionId >>

\* String.prototype.trim, toLowerCase, endsWith, includes, split
RECURSIVE trimStart(_)
trimStart(str) ==
  IF str # <<>> /\ Head(str) = " " THEN trimStart(Tail(str)) ELSE str

RECURSIVE trimEnd(_)
trimEnd(str) ==
  IF str # <<>> /\ str[Len(str)] = " "
  THEN trimEnd(SubSeq(str, 1, Len(str) - 1)) ELSE str

trim(str) == trimEnd(trimStart(str))

LowerChar(ch) ==
  CASE ch = "D" -> "d" [] ch = "N" -> "n" [] ch = "F" -> "f" [] ch = "A" -> "a"
    [] OTHER -> ch

toLowerCase(str) == [i \in 1..Len(str) |-> LowerChar(str[i])]

endsWith(str, suffix) ==
  /\ Len(str) >= Len(suffix)
  /\ SubSeq(str, Len(str) - Len(suffix) + 1, Len(str)) = suffix

includes(str, ch) == \E i \in 1..Len(str) : str[i] = ch

\* The first index of ch in str from index from on, Len(str) + 1 if none
IndexFrom(str, ch, from) ==
  IF \E i \in from..Len(str) : str[i] = ch
  THEN CHOOSE i \in from..Len(str) :
         str[i] = ch /\ \A j \in from..(i - 1) : str[j] # ch
  ELSE Len(str) + 1

\* The first two pieces of str.split(':'), for a str that holds a ':'
SplitColon(str) ==
  LET first == IndexFrom(str, ":", 1)
      second == IndexFrom(str, ":", first + 1)
  IN [minutes |-> SubSeq(str, 1, first - 1),
      rest |-> SubSeq(str, first + 1, second - 1)]

\* input.replace(/\+2?$/, '')
StripPlus(str) ==
  IF endsWith(str, <<"+", "2">>) THEN SubSeq(str, 1, Len(str) - 2)
  ELSE IF endsWith(str, <<"+">>) THEN SubSeq(str, 1, Len(str) - 1)
  ELSE str

DigitChars == {"0", "1", "2", "3", "4", "5", "6", "7", "8", "9"}
DigitValue(ch) ==
  CASE ch = "0" -> 0 [] ch = "1" -> 1 [] ch = "2" -> 2 [] ch = "3" -> 3
    [] ch = "4" -> 4 [] ch = "5" -> 5 [] ch = "6" -> 6 [] ch = "7" -> 7
    [] ch = "8" -> 8 [] ch = "9" -> 9

\* The number of leading digits of str
RECURSIVE DigitRun(_)
DigitRun(str) ==
  IF str # <<>> /\ Head(str) \in DigitChars THEN 1 + DigitRun(Tail(str)) ELSE 0

RECURSIVE DecimalValue(_)
DecimalValue(digits) ==
  IF digits = <<>> THEN 0
  ELSE 10 * DecimalValue(SubSeq(digits, 1, Len(digits) - 1))
         + DigitValue(digits[Len(digits)])

\* A sign, if any, then the rest
Signed(str) ==
  IF str # <<>> /\ Head(str) \in {"+", "-"}
  THEN [negative |-> Head(str) = "-", rest |-> Tail(str)]
  ELSE [negative |-> FALSE, rest |-> str]

\* parseInt(str): leading white space, a sign, then the longest run of digits
parseInt(str) ==
  LET sg == Signed(trimStart(str))
      n == DigitRun(sg.rest)
      v == DecimalValue(SubSeq(sg.rest, 1, n))
  IN IF n = 0 THEN NaN ELSE IF sg.negative THEN 0 - v ELSE v

\* Seconds are kept in thousandths, as are ratios
SecondScale == 1000

\* parseFloat(str), in thousandths: leading white space, a sign, digits, and
\* a point with digits; whatever follows is ignored.  Exponents, 'Infinity'
\* and fraction digits beyond the third do not occur in the entries offered.
parseFloat(str) ==
  LET sg == Signed(trimStart(str))
      n == DigitRun(sg.rest)
      after == SubSeq(sg.rest, n + 1, Len(sg.rest))
      m == IF after # <<>> /\ Head(after) = "." THEN DigitRun(Tail(after)) ELSE 0
      fraction == SubSeq(after, 2, 1 + m) \o <<"0", "0", "0">>
      v == DecimalValue(SubSeq(sg.rest, 1, n)) * SecondScale
             + DecimalValue(SubSeq(fraction, 1, 3))
  IN IF n = 0 /\ m = 0 THEN NaN ELSE IF sg.negative THEN 0 - v ELSE v

\* The longest duration a typed entry may have, in milliseconds
MaxTypedMs == 3600000

\* A variant of parseTimeInput that adds the two seconds to the duration
parseTimeInput_penaltyInTime(input) ==
  LET trimmed == trim(input)
      plus == endsWith(trimmed, <<"+">>) \/ endsWith(trimmed, <<"+", "2">>)
      body == IF plus THEN trim(StripPlus(trimmed)) ELSE trimmed
      penalty == IF plus THEN "+2" ELSE "none"
      parts == SplitColon(body)
      timeMs == IF includes(body, ":")
                THEN Plus(Times(parseInt(parts.minutes), 60 * SecondScale),
                          parseFloat(parts.rest))
                ELSE parseFloat(body)
  IN IF toLowerCase(trimmed) = <<"d", "n", "f">> THEN [time |-> 0, penalty |-> "DNF"]
     ELSE IF IsNaN(timeMs) THEN Null
     ELSE IF timeMs <= 0 \/ timeMs > MaxTypedMs THEN Null
     ELSE [time |-> IF plus THEN timeMs + PlusTwo ELSE timeMs, penalty |-> penalty]

\* parseTimeInput(input): Null, or the duration in milliseconds and the
\* penalty ("none" for null).  seconds * 1000 is what the thousandths hold.
parseTimeInput(input) ==
  LET trimmed == trim(input)
      plus == endsWith(trimmed, <<"+">>) \/ endsWith(trimmed, <<"+", "2">>)
      body == IF plus THEN trim(StripPlus(trimmed)) ELSE trimmed
      penalty == IF plus THEN "+2" ELSE "none"
      parts == SplitColon(body)
      timeMs == IF includes(body, ":")
                THEN Plus(Times(parseInt(parts.minutes), 60 * SecondScale),
                          parseFloat(parts.rest))
                ELSE parseFloat(body)
  IN IF toLowerCase(trimmed) = <<"d", "n", "f">> THEN [time |-> 0, penalty |-> "DNF"]
     ELSE IF IsNaN(timeMs) THEN Null
     ELSE IF timeMs <= 0 \/ timeMs > MaxTypedMs THEN Null
     ELSE [time |-> timeMs, penalty |-> penalty]

\* A variant of addTypedTime that hands the entry to the mesh bar, as a timed
\* solve is
addTypedTimeOn_showsMeshBar(input, cap, scrs) ==
  LET parsed == parseTimeInput(input) IN
  IF parsed = Null
  THEN /\ typingInput' = input
       /\ UNCHANGED << sessions, storage, currentScramble, uiVars, currentSolve,
                       meshTimeouts >>
  ELSE LET solve == [id |-> now, time |-> parsed.time, scramble |-> currentScramble,
                     splits |-> Null, metrics |-> Null, penalty |-> parsed.penalty,
                     typed |-> TRUE]
       IN /\ currentSolve' = solve
          /\ meshTimeouts' = meshTimeouts + 1
          /\ typingInput' = <<>>
          /\ UNCHANGED << sessions, storage, currentScramble, uiVars >>

\* addTypedTime with input in the field #typingInput
addTypedTimeOn(input, cap, scrs) ==
  LET parsed == parseTimeInput(input) IN
  IF parsed = Null
  THEN /\ typingInput' = input
       /\ UNCHANGED << sessions, storage, currentScramble, uiVars, currentSolve,
                       meshTimeouts >>
  ELSE LET solve == [id |-> now, time |-> parsed.time, scramble |-> currentScramble,
                     splits |-> Null, metrics |-> Null, penalty |-> parsed.penalty,
                     typed |-> TRUE]
           k == getCurrentSession(sessions, currentSessionId)
       IN /\ k # 0
          /\ Len(sessions[k].solves) < cap
          /\ sessions' = PushSolve(sessions, k, solve)
          /\ storage' = Snapshot(sessions', currentSessionId, settings, meshSplits)
          /\ generateScramble(scrs)
          /\ updateUI(sessions', currentSessionId)
          /\ typingInput' = <<>>
          /\ UNCHANGED << currentSolve, meshTimeouts >>

\* The input event of #typingInput: the user edits the field
typingInputEvent(inputs) ==
  /\ settings.typingMode
  /\ \E input \in inputs : typingInput' = input
  /\ UNCHANGED << sessionVars, timerVars, uiVars, meshVars, settings, inspectionToggle,
                  currentScramble, confirmCallback, openModals, now, storage,
                  editingSessionId, listenersAttached, goalVars, editingSolveId, scrambler >>

\* Enter in #typingInput, or the #addTimeBtn click, with one of inputs in the field
addTypedTime(cap, inputs, scrs) ==
  /\ settings.typingMode
  /\ \E input \in inputs : addTypedTimeOn(input, cap, scrs)
  /\ UNCHANGED << currentSessionId, timerVars, meshSplits, settings, inspectionToggle,
                  confirmCallback, openModals, now, editingSessionId,
                  listenersAttached, goalVars, editingSolveId, scrambler >>

\* Keys '1', '2', '3' while the timer is idle
applyPenaltyToLastSolve ==
  /\ timerState = "idle"
  /\ \E penalty \in Penalties :
       LET k == getCurrentSession(sessions, currentSessionId) IN
       /\ k # 0
       /\ Len(sessions[k].solves) # 0
       /\ IsSolve(sessions[k].solves[Len(sessions[k].solves)])
       /\ sessions' = [sessions EXCEPT ![k].solves[Len(sessions[k].solves)].penalty = penalty]
       /\ storage' = Snapshot(sessions', currentSessionId, settings, meshSplits)
       /\ updateUI(sessions', currentSessionId)
  /\ UNCHANGED << currentSessionId, timerVars, meshVars, settings, inspectionToggle,
                  currentScramble, confirmCallback, openModals, now, typingInput, listenersAttached, goalVars, editingSolveId, scrambler, editingSessionId >>

\* session.solves.pop(); saveState(); updateUI() on the session captured by id
PopLast(id) ==
  LET k == FindSession(sessions, id) IN
  /\ sessions' = IF k = 0 \/ Len(sessions[k].solves) = 0 THEN sessions
                 ELSE [sessions EXCEPT ![k].solves = SubSeq(@, 1, Len(@) - 1)]
  /\ storage' = Snapshot(sessions', currentSessionId, settings, meshSplits)
  /\ updateUI(sessions', currentSessionId)

\* Keys Delete / Backspace while the timer is idle
deleteLastSolve ==
  /\ timerState = "idle"
  /\ LET k == getCurrentSession(sessions, currentSessionId) IN
     /\ k # 0
     /\ Len(sessions[k].solves) # 0
     /\ IF settings.confirmDelete
        THEN /\ confirmCallback' = [op |-> "deleteLast", session |-> sessions[k].id]
             /\ openModals' = openModals \cup {"confirm"}
             /\ UNCHANGED << sessions, storage, uiVars >>
        ELSE /\ PopLast(sessions[k].id)
             /\ UNCHANGED << confirmCallback, openModals >>
  /\ UNCHANGED << currentSessionId, timerVars, meshVars, settings, inspectionToggle,
                  currentScramble, now, typingInput, listenersAttached, goalVars, editingSolveId, scrambler, editingSessionId >>

\* solves.find(s => s.id === id) / findIndex: the index of the first result
\* with that id, 0 when there is none; the callback throws on a null element
\* it meets before a match, which is -1 here
RECURSIVE FindFrom(_, _, _)
FindFrom(solves, id, i) ==
  IF i > Len(solves) THEN 0
  ELSE IF ~IsSolve(solves[i]) THEN 0 - 1
  ELSE IF solves[i].id = id THEN i
  ELSE FindFrom(solves, id, i + 1)

FindSolve(solves, id) == FindFrom(solves, id, 1)

\* State.editingSolveId as find compares it: no result has the id null
EditedId == IF editingSolveId = Null THEN NoId ELSE editingSolveId[1]

\* A history item is clicked: showSolveEditModal(solve.id) for a result of
\* the list updateHistoryList rendered
historyItemClick ==
  /\ LET k == getCurrentSession(sessions, currentSessionId) IN
     /\ k # 0
     /\ \E j \in 1..Len(sessions[k].solves) :
          /\ IsSolve(sessions[k].solves[j])
          /\ FindSolve(sessions[k].solves, sessions[k].solves[j].id) > 0
          /\ editingSolveId' = <<sessions[k].solves[j].id>>
  /\ openModals' = openModals \cup {"solveEdit"}
  /\ UNCHANGED << sessionVars, timerVars, uiVars, meshVars, settings, inspectionToggle,
                  currentScramble, confirmCallback, now, storage, editingSessionId,
                  typingInput, listenersAttached, goalVars, scrambler >>

\* A variant of setPenalty that gives the penalty to the last result
setPenaltyTo_lastResult(penalty) ==
  LET k == getCurrentSession(sessions, currentSessionId)
      j == IF k = 0 THEN 0
           ELSE IF FindSolve(sessions[k].solves, EditedId) > 0
           THEN Len(sessions[k].solves) ELSE 0
  IN IF j <= 0 THEN UNCHANGED << sessions, storage, uiVars >>
     ELSE /\ sessions' = [sessions EXCEPT ![k].solves[j].penalty = penalty]
          /\ storage' = Snapshot(sessions', currentSessionId, settings, meshSplits)
          /\ updateUI(sessions', currentSessionId)

\* setPenalty(penalty): without a current session, or when find throws or
\* finds nothing, nothing changes
setPenaltyTo(penalty) ==
  LET k == getCurrentSession(sessions, currentSessionId)
      j == IF k = 0 THEN 0 ELSE FindSolve(sessions[k].solves, EditedId)
  IN IF j <= 0 THEN UNCHANGED << sessions, storage, uiVars >>
     ELSE /\ sessions' = [sessions EXCEPT ![k].solves[j].penalty = penalty]
          /\ storage' = Snapshot(sessions', currentSessionId, settings, meshSplits)
          /\ updateUI(sessions', currentSessionId)

\* #editPenaltyNone, #editPenaltyPlus2, #editPenaltyDNF click
setPenalty ==
  /\ "solveEdit" \in openModals
  /\ \E penalty \in Penalties : setPenaltyTo(penalty)
  /\ UNCHANGED << currentSessionId, timerVars, meshVars, settings, inspectionToggle,
                  currentScramble, confirmCallback, openModals, now, editingSessionId,
                  typingInput, listenersAttached, goalVars, editingSolveId, scrambler >>

\* A variant of performDeleteSolve that removes the last result
performDeleteSolve_removesLast(hidden) ==
  LET k == getCurrentSession(sessions, currentSessionId)
      index == IF k = 0 THEN 0 - 1
               ELSE IF FindSolve(sessions[k].solves, EditedId) > 0
               THEN Len(sessions[k].solves)
               ELSE FindSolve(sessions[k].solves, EditedId)
  IN IF index < 0
     THEN UNCHANGED << sessions, storage, uiVars, openModals, editingSolveId >>
     ELSE /\ IF index > 0
             THEN /\ sessions' = [sessions EXCEPT ![k].solves = RemoveAt(@, index)]
                  /\ storage' = Snapshot(sessions', currentSessionId, settings, meshSplits)
                  /\ updateUI(sessions', currentSessionId)
             ELSE UNCHANGED << sessions, storage, uiVars >>
          /\ openModals' = openModals \ hidden
          /\ editingSolveId' = Null

\* performDeleteSolve(): the first result with the edited id is spliced out;
\* the dialog closes either way.  Without a current session, or when
\* findIndex throws, the function stops before it has changed anything.
\* hidden are the dialogs closed when it returns.
performDeleteSolve(hidden) ==
  LET k == getCurrentSession(sessions, currentSessionId)
      index == IF k = 0 THEN 0 - 1 ELSE FindSolve(sessions[k].solves, EditedId)
  IN IF index < 0
     THEN UNCHANGED << sessions, storage, uiVars, openModals, editingSolveId >>
     ELSE /\ IF index > 0
             THEN /\ sessions' = [sessions EXCEPT ![k].solves = RemoveAt(@, index)]
                  /\ storage' = Snapshot(sessions', currentSessionId, settings, meshSplits)
                  /\ updateUI(sessions', currentSessionId)
             ELSE UNCHANGED << sessions, storage, uiVars >>
          /\ openModals' = openModals \ hidden
          /\ editingSolveId' = Null

\* The confirmed callback is performDeleteSolve and it throws: #confirmOk's
\* handler stops before it clears the callback and hides the dialog
PerformDeleteThrows ==
  /\ confirmCallback # Null
  /\ confirmCallback.op = "deleteSolve"
  /\ LET k == getCurrentSession(sessions, currentSessionId)
     IN k = 0 \/ FindSolve(sessions[k].solves, EditedId) < 0

\* #deleteSolve click
deleteCurrentSolve ==
  /\ "solveEdit" \in openModals
  /\ IF settings.confirmDelete
     THEN /\ confirmCallback' = [op |-> "deleteSolve", session |-> NoId]
          /\ openModals' = openModals \cup {"confirm"}
          /\ UNCHANGED << sessions, storage, uiVars, editingSolveId >>
     ELSE /\ performDeleteSolve({"solveEdit"})
          /\ UNCHANGED confirmCallback
  /\ UNCHANGED << currentSessionId, timerVars, meshVars, settings, inspectionToggle,
                  currentScramble, now, editingSessionId, typingInput, listenersAttached,
                  goalVars, scrambler >>

\* #closeEditSolve click
closeEditSolve ==
  /\ "solveEdit" \in openModals
  /\ openModals' = openModals \ {"solveEdit"}
  /\ editingSolveId' = Null
  /\ updateUI(sessions, currentSessionId)
  /\ UNCHANGED << sessionVars, timerVars, meshVars, settings, inspectionToggle,
                  currentScramble, confirmCallback, now, storage, editingSessionId,
                  typingInput, listenersAttached, goalVars, scrambler >>

\* #confirmOk click
confirmOk ==
  /\ "confirm" \in openModals
  /\ IF confirmCallback = Null
     THEN /\ openModals' = openModals \ {"confirm"}
          /\ UNCHANGED << sessions, currentSessionId, storage, uiVars, editingSessionId,
                          editingSolveId >>
     ELSE IF confirmCallback.op = "deleteLast"
     THEN /\ PopLast(confirmCallback.session)
          /\ openModals' = openModals \ {"confirm"}
          /\ UNCHANGED << currentSessionId, editingSessionId, editingSolveId >>
     ELSE IF confirmCallback.op = "deleteSession"
     THEN deleteSessionConfirmed /\ UNCHANGED editingSolveId
     ELSE IF confirmCallback.op = "deleteSolve"
     THEN /\ performDeleteSolve({"solveEdit", "confirm"})
          /\ UNCHANGED << currentSessionId, editingSessionId >>
     ELSE clearHistoryConfirmed /\ UNCHANGED editingSolveId
  /\ confirmCallback' = IF PerformDeleteThrows THEN confirmCallback ELSE Null
  /\ UNCHANGED << timerVars, meshVars, settings, inspectionToggle,
                  currentScramble, now, typingInput, listenersAttached, goalVars, scrambler >>

\* #confirmCancel click
confirmCancel ==
  /\ "confirm" \in openModals
  /\ confirmCallback' = Null
  /\ openModals' = openModals \ {"confirm"}
  /\ UNCHANGED << sessionVars, timerVars, uiVars, meshVars, settings, inspectionToggle,
                  currentScramble, now, typingInput, listenersAttached, goalVars, editingSolveId, scrambler, editingSessionId, storage >>

\* #closeSettings click: the check boxes of the settings modal are stored;
\* boxes are the check boxes the user may have changed
saveSettings(boxes) ==
  /\ \E mb \in BOOLEAN, cd \in BOOLEAN :
       /\ "meshBar" \notin boxes => mb = settings.meshBar
       /\ "confirmDelete" \notin boxes => cd = settings.confirmDelete
       /\ settings' = [settings EXCEPT !.meshBar = mb, !.confirmDelete = cd]
  /\ storage' = Snapshot(sessions, currentSessionId, settings', meshSplits)
  /\ UNCHANGED << sessionVars, timerVars, uiVars, meshVars, inspectionToggle,
                  currentScramble, confirmCallback, openModals, now, typingInput, listenersAttached, goalVars, editingSolveId, scrambler, editingSessionId >>

(***************************************************************************)
(* Timer                                                                   *)
(***************************************************************************)
\* startInspection
startInspection ==
  /\ timerState' = "inspection"
  /\ inspectionTime' = InspectionStart
  /\ inspectionIntervalId' = SomeHandle
  /\ activeIntervals' = [activeIntervals EXCEPT !.inspection = @ + 1]
  /\ UNCHANGED << timerValue, intervalId >>

\* A variant of stopInspection(); startTimer() that does not clear the countdown
stopInspectionStartTimer_leavesCountdown ==
  /\ inspectionIntervalId' = Null
  /\ timerState' = "running"
  /\ timerValue' = 0
  /\ intervalId' = SomeHandle
  /\ activeIntervals' = [activeIntervals EXCEPT !.timer = @ + 1]
  /\ UNCHANGED inspectionTime

\* stopInspection(); startTimer()
stopInspectionStartTimer ==
  /\ inspectionIntervalId' = Null
  /\ timerState' = "running"
  /\ timerValue' = 0
  /\ intervalId' = SomeHandle
  /\ activeIntervals' =
       [timer |-> activeIntervals.timer + 1,
        inspection |-> IF inspectionIntervalId # Null
                       THEN activeIntervals.inspection - 1
                       ELSE activeIntervals.inspection]
  /\ UNCHANGED inspectionTime

\* startTimer
startTimer ==
  /\ timerState' = "running"
  /\ timerValue' = 0
  /\ intervalId' = SomeHandle
  /\ activeIntervals' = [activeIntervals EXCEPT !.timer = @ + 1]
  /\ UNCHANGED << inspectionIntervalId, inspectionTime >>

\* completeSolve, entered with State.currentSolve = solve
completeSolve(solve, cap, scrs) ==
  LET k == getCurrentSession(sessions, currentSessionId) IN
  /\ k # 0
  /\ Len(sessions[k].solves) < cap
  /\ sessions' = PushSolve(sessions, k, solve)
  /\ currentSolve' = Null
  /\ storage' = Snapshot(sessions', currentSessionId, settings, meshSplits)
  /\ generateScramble(scrs)
  /\ updateUI(sessions', currentSessionId)

\* stopTimer: the interval is cleared, the solve object is built, and it is
\* either parked in State.currentSolve behind the mesh bar's timeout or completed
stopTimer(cap, scrs) ==
  LET solve == [id |-> now, time |-> timerValue, scramble |-> currentScramble,
                splits |-> Null, metrics |-> Null, penalty |-> "none", typed |-> FALSE]
  IN
  /\ activeIntervals' = [activeIntervals EXCEPT
                           !.timer = IF intervalId # Null THEN @ - 1 ELSE @]
  /\ intervalId' = Null
  /\ timerState' = "idle"
  /\ UNCHANGED << timerValue, inspectionIntervalId, inspectionTime >>
  /\ IF settings.meshBar
     THEN /\ meshTimeouts < MaxTimeouts
          /\ currentSolve' = solve
          /\ meshTimeouts' = meshTimeouts + 1
          /\ UNCHANGED << sessions, storage, currentScramble, uiVars >>
     ELSE /\ completeSolve(solve, cap, scrs)
          /\ UNCHANGED meshTimeouts

\* A variant of cancelSolve that leaves the timer's interval registered
cancelSolve_keepsInterval ==
  /\ UNCHANGED << intervalId, activeIntervals >>
  /\ inspectionIntervalId' = Null
  /\ timerState' = "idle"
  /\ timerValue' = 0
  /\ spacePressed' = FALSE
  /\ UNCHANGED inspectionTime

\* cancelSolve
cancelSolve ==
  /\ intervalId' = Null
  /\ inspectionIntervalId' = Null
  /\ activeIntervals' =
       [timer |-> IF intervalId # Null THEN activeIntervals.timer - 1
                  ELSE activeIntervals.timer,
        inspection |-> IF inspectionIntervalId # Null
                       THEN activeIntervals.inspection - 1
                       ELSE activeIntervals.inspection]
  /\ timerState' = "idle"
  /\ timerValue' = 0
  /\ spacePressed' = FALSE
  /\ UNCHANGED inspectionTime

\* A variant of the Space key-down that starts the timer at once
handleKeyDownSpace_startsTimer ==
  /\ ~settings.typingMode
  /\ ~spacePressed /\ timerState = "idle"
  /\ spacePressed' = TRUE
  /\ startTimer
  /\ UNCHANGED << sessionVars, uiVars, meshVars, settings, inspectionToggle,
                  currentScramble, confirmCallback, openModals, now, typingInput, listenersAttached, goalVars, editingSolveId, scrambler, editingSessionId, storage >>

\* handleKeyDown, e.code = 'Space'
handleKeyDownSpace ==
  /\ ~settings.typingMode
  /\ ~spacePressed /\ timerState = "idle"
  /\ spacePressed' = TRUE
  /\ IF inspectionToggle
     THEN startInspection
     ELSE UNCHANGED << timerState, timerValue, intervalId, inspectionIntervalId,
                       inspectionTime, activeIntervals >>
  /\ UNCHANGED << sessionVars, uiVars, meshVars, settings, inspectionToggle,
                  currentScramble, confirmCallback, openModals, now, typingInput, listenersAttached, goalVars, editingSolveId, scrambler, editingSessionId, storage >>

\* handleKeyUp, e.code = 'Space'
handleKeyUpSpace(cap, scrs) ==
  /\ ~settings.typingMode
  /\ spacePressed
  /\ spacePressed' = FALSE
  /\ \/ /\ timerState = "idle"
        /\ startTimer
        /\ UNCHANGED << sessions, uiVars, currentSolve, meshTimeouts,
                        currentScramble, storage >>
     \/ /\ timerState = "running"
        /\ stopTimer(cap, scrs)
     \/ /\ timerState = "inspection"
        /\ stopInspectionStartTimer
        /\ UNCHANGED << sessions, uiVars, currentSolve, meshTimeouts,
                        currentScramble, storage >>
  /\ UNCHANGED << currentSessionId, meshSplits, settings, inspectionToggle,
                  confirmCallback, openModals, now, typingInput, listenersAttached, goalVars, editingSolveId, scrambler, editingSessionId >>

\* #mainArea touchstart
touchStart ==
  /\ ~settings.typingMode
  /\ timerState = "idle"
  /\ IF inspectionToggle
     THEN startInspection /\ UNCHANGED spacePressed
     ELSE /\ spacePressed' = TRUE
          /\ UNCHANGED << timerState, timerValue, intervalId, inspectionIntervalId,
                          inspectionTime, activeIntervals >>
  /\ UNCHANGED << sessionVars, uiVars, meshVars, settings, inspectionToggle,
                  currentScramble, confirmCallback, openModals, now, typingInput, listenersAttached, goalVars, editingSolveId, scrambler, editingSessionId, storage >>

\* #mainArea touchend
touchEnd(cap, scrs) ==
  /\ ~settings.typingMode
  /\ \/ /\ timerState = "idle" /\ spacePressed
        /\ spacePressed' = FALSE
        /\ startTimer
        /\ UNCHANGED << sessions, uiVars, currentSolve, meshTimeouts,
                        currentScramble, storage >>
     \/ /\ timerState = "running"
        /\ stopTimer(cap, scrs)
        /\ UNCHANGED spacePressed
     \/ /\ timerState = "inspection"
        /\ stopInspectionStartTimer
        /\ UNCHANGED << spacePressed, sessions, uiVars, currentSolve, meshTimeouts,
                        currentScramble, storage >>
  /\ UNCHANGED << currentSessionId, meshSplits, settings, inspectionToggle,
                  confirmCallback, openModals, now, typingInput, listenersAttached, goalVars, editingSolveId, scrambler, editingSessionId >>

\* The 10 ms interval of startTimer: State.timerValue follows performance.now()
timerTick ==
  /\ activeIntervals.timer > 0
  /\ \E t \in TickTimes : t > timerValue /\ timerValue' = t
  /\ UNCHANGED << sessionVars, uiVars, meshVars, settings, inspectionToggle,
                  currentScramble, confirmCallback, openModals, now, typingInput, listenersAttached, goalVars, editingSolveId, scrambler, editingSessionId, storage,
                  timerState, intervalId, inspectionIntervalId, inspectionTime,
                  spacePressed, activeIntervals >>

\* A variant of the countdown tick that ends the inspection at 0 without
\* starting the timer
inspectionTick_expiresToIdle ==
  /\ activeIntervals.inspection > 0
  /\ IF inspectionTime - 1 <= 0
     THEN /\ inspectionTime' = inspectionTime - 1
          /\ inspectionIntervalId' = Null
          /\ timerState' = "idle"
          /\ activeIntervals' =
               [activeIntervals EXCEPT
                  !.inspection = IF inspectionIntervalId # Null THEN @ - 1 ELSE @]
          /\ UNCHANGED << timerValue, intervalId >>
     ELSE /\ inspectionTime' = inspectionTime - 1
          /\ UNCHANGED << timerState, timerValue, intervalId, inspectionIntervalId,
                          activeIntervals >>
  /\ UNCHANGED << sessionVars, uiVars, meshVars, settings, inspectionToggle,
                  currentScramble, confirmCallback, openModals, now, typingInput,
                  listenersAttached, goalVars, editingSolveId, scrambler,
                  editingSessionId, storage, spacePressed >>

\* The 1000 ms interval of startInspection
inspectionTick ==
  /\ activeIntervals.inspection > 0
  /\ IF inspectionTime - 1 <= 0
     THEN /\ inspectionTime' = inspectionTime - 1
          /\ inspectionIntervalId' = Null
          /\ timerState' = "running"
          /\ timerValue' = 0
          /\ intervalId' = SomeHandle
          /\ activeIntervals' =
               [timer |-> activeIntervals.timer + 1,
                inspection |-> IF inspectionIntervalId # Null
                               THEN activeIntervals.inspection - 1
                               ELSE activeIntervals.inspection]
     ELSE /\ inspectionTime' = inspectionTime - 1
          /\ UNCHANGED << timerState, timerValue, intervalId, inspectionIntervalId,
                          activeIntervals >>
  /\ UNCHANGED << sessionVars, uiVars, meshVars, settings, inspectionToggle,
                  currentScramble, confirmCallback, openModals, now, typingInput, listenersAttached, goalVars, editingSolveId, scrambler, editingSessionId, storage,
                  spacePressed >>

\* handleKeyDown, e.code = 'Escape'
handleKeyDownEscape ==
  /\ IF timerState = "running"
     THEN cancelSolve /\ UNCHANGED openModals
     ELSE openModals' = {} /\ UNCHANGED timerVars
  /\ UNCHANGED << sessionVars, uiVars, meshVars, settings, inspectionToggle,
                  currentScramble, confirmCallback, now, typingInput, listenersAttached, goalVars, editingSolveId, scrambler, editingSessionId, storage >>

\* A click on the backdrop of a shown modal hides it
modalBackdropClick ==
  /\ \E m \in openModals : openModals' = openModals \ {m}
  /\ UNCHANGED << sessionVars, timerVars, uiVars, meshVars, settings,
                  inspectionToggle, currentScramble, confirmCallback, now, typingInput, listenersAttached, goalVars, editingSolveId, scrambler, editingSessionId, storage >>

\* Date.now() advances
clockTick ==
  /\ now < MaxNow
  /\ now' = now + 1
  /\ UNCHANGED << sessionVars, timerVars, uiVars, meshVars, settings,
                  inspectionToggle, currentScramble, confirmCallback, openModals,
                  storage, editingSessionId, typingInput, listenersAttached, goalVars, editingSolveId, scrambler >>

(***************************************************************************)
(* Mesh bar and metrics dialog                                             *)
(***************************************************************************)
\* The three phase durations, in thousandths of a millisecond
Splits(time, ms) ==
  [cross |-> Times(time, ms[1]), f2l |-> Times(time, Minus(ms[2], ms[1])),
   ll |-> Times(time, Minus(RatioScale, ms[2]))]

\* The callback showMeshBar hands to setTimeout: showMeshInputModal
meshTimeout ==
  /\ meshTimeouts > 0
  /\ meshTimeouts' = meshTimeouts - 1
  /\ openModals' = openModals \cup {"meshInput"}
  /\ UNCHANGED << sessionVars, timerVars, uiVars, currentSolve, meshSplits, settings,
                  inspectionToggle, currentScramble, confirmCallback, now, typingInput, listenersAttached, goalVars, editingSolveId, scrambler, editingSessionId, storage >>

\* #saveMeshMetrics click.  With State.currentSolve null the first assignment
\* throws and nothing has changed.
saveMeshMetrics(cap, scrs) ==
  /\ "meshInput" \in openModals
  /\ currentSolve # Null
  /\ \E form \in FormInputs :
       completeSolve([currentSolve EXCEPT
                        !.metrics = form,
                        !.splits = Splits(currentSolve.time, meshSplits)], cap, scrs)
  /\ openModals' = openModals \ {"meshInput"}
  /\ UNCHANGED << currentSessionId, timerVars, meshSplits, meshTimeouts, settings,
                  inspectionToggle, confirmCallback, now, typingInput, listenersAttached, goalVars, editingSolveId, scrambler, editingSessionId >>

\* #skipMeshMetrics click
skipMeshMetrics(cap, scrs) ==
  /\ "meshInput" \in openModals
  /\ completeSolve(currentSolve, cap, scrs)
  /\ openModals' = openModals \ {"meshInput"}
  /\ UNCHANGED << currentSessionId, timerVars, meshSplits, meshTimeouts, settings,
                  inspectionToggle, confirmCallback, now, typingInput, listenersAttached, goalVars, editingSolveId, scrambler, editingSessionId >>

\* A variant of updateMeshSplit whose first clamp has no upper end
updateMeshSplit_noUpperClamp(ms, index, relativeX) ==
  IF index = 0
  THEN LET r1 == MathMax2(100, relativeX)
       IN <<IF GreaterEq(r1, Minus(ms[2], 100)) THEN Minus(ms[2], 100) ELSE r1, ms[2]>>
  ELSE IF index = 1
  THEN LET r2 == MathMax2(500, relativeX)
       IN <<ms[1], IF LessEq(r2, Plus(ms[1], 100)) THEN Plus(ms[1], 100) ELSE r2>>
  ELSE ms

\* updateMeshSplit(index, relativeX): the new State.meshSplits
updateMeshSplit(ms, index, relativeX) ==
  IF index = 0
  THEN LET r1 == MathMax2(100, MathMin2(400, relativeX))
       IN <<IF GreaterEq(r1, Minus(ms[2], 100)) THEN Minus(ms[2], 100) ELSE r1, ms[2]>>
  ELSE IF index = 1
  THEN LET r2 == MathMax2(500, MathMin2(900, relativeX))
       IN <<ms[1], IF LessEq(r2, Plus(ms[1], 100)) THEN Plus(ms[1], 100) ELSE r2>>
  ELSE ms

\* (clientX - rect.left) / rect.width, in thousandths
relativeX(clientX, rect) ==
  LET d == clientX - rect.left IN
  IF rect.width = 0
  THEN IF d = 0 THEN NaN ELSE IF d > 0 THEN Infinity ELSE 0 - Infinity
  ELSE (d * RatioScale) \div rect.width

\* A variant of the move handler that recomputes the splits of the stored
\* results from the new ratios
dragMove_resplitsStored(xs, rects) ==
  /\ \E index \in {0, 1}, clientX \in xs, rect \in rects :
       meshSplits' = updateMeshSplit(meshSplits, index, relativeX(clientX, rect))
  /\ sessions' = [i \in 1..Len(sessions) |->
                    [sessions[i] EXCEPT !.solves =
                       [j \in 1..Len(sessions[i].solves) |->
                          IF IsSolve(sessions[i].solves[j]) /\ sessions[i].solves[j].splits # Null
                          THEN [sessions[i].solves[j] EXCEPT
                                  !.splits = Splits(sessions[i].solves[j].time, meshSplits')]
                          ELSE sessions[i].solves[j]]]]
  /\ UNCHANGED << currentSessionId, timerVars, uiVars, currentSolve, meshTimeouts, settings,
                  inspectionToggle, currentScramble, confirmCallback, openModals,
                  now, typingInput, listenersAttached, goalVars, editingSolveId, scrambler,
                  editingSessionId, storage >>

\* onMove of startDrag / startDragTouch, for the divider with data-index index
dragMove(xs, rects) ==
  /\ \E index \in {0, 1}, clientX \in xs, rect \in rects :
       meshSplits' = updateMeshSplit(meshSplits, index, relativeX(clientX, rect))
  /\ UNCHANGED << sessionVars, timerVars, uiVars, currentSolve, meshTimeouts, settings,
                  inspectionToggle, currentScramble, confirmCallback, openModals,
                  now, typingInput, listenersAttached, goalVars, editingSolveId, scrambler, editingSessionId, storage >>

\* onUp of startDrag / startDragTouch
dragEnd ==
  /\ storage' = Snapshot(sessions, currentSessionId, settings, meshSplits)
  /\ UNCHANGED << sessionVars, timerVars, uiVars, meshVars, settings,
                  inspectionToggle, currentScramble, confirmCallback, openModals, now, typingInput, listenersAttached, goalVars, editingSolveId, scrambler, editingSessionId >>

(***************************************************************************)
(* Goals and analytics dialogs                                             *)
(***************************************************************************)
\* GOALS: the targets, seconds for the phases and a count for the rotations,
\* each as the exact quotient <<a, b>>
GOALS ==
  [sub60 |-> [cross |-> <<8, 1>>, f2l |-> <<35, 1>>, ll |-> <<17, 1>>, rotations |-> <<6, 1>>],
   sub30 |-> [cross |-> <<35, 10>>, f2l |-> <<18, 1>>, ll |-> <<85, 10>>, rotations |-> <<4, 1>>],
   sub20 |-> [cross |-> <<18, 10>>, f2l |-> <<13, 1>>, ll |-> <<52, 10>>, rotations |-> <<3, 1>>],
   sub15 |-> [cross |-> <<15, 10>>, f2l |-> <<95, 10>>, ll |-> <<4, 1>>, rotations |-> <<2, 1>>],
   sub10 |-> [cross |-> <<12, 10>>, f2l |-> <<65, 10>>, ll |-> <<23, 10>>, rotations |-> <<15, 10>>],
   sub8 |-> [cross |-> <<1, 1>>, f2l |-> <<5, 1>>, ll |-> <<2, 1>>, rotations |-> <<12, 10>>],
   sub5 |-> [cross |-> <<8, 10>>, f2l |-> <<3, 1>>, ll |-> <<12, 10>>, rotations |-> <<1, 1>>],
   sub3 |-> [cross |-> <<5, 10>>, f2l |-> <<18, 10>>, ll |-> <<7, 10>>, rotations |-> <<5, 10>>]]

\* reduce((a, x) => a + x, 0) over numbers
RECURSIVE PlusAll(_)
PlusAll(arr) == IF arr = <<>> THEN 0 ELSE Plus(Head(arr), PlusAll(Tail(arr)))

\* s => s.splits
HasSplits(s) == s.splits # Null

\* s => s.metrics?.f2lRotations != null ({} has no f2lRotations)
HasRotations(s) == s.metrics # Null /\ s.metrics.f2lRotations # Null

\* s => s.metrics && Object.keys(s.metrics).length > 0
HasMetrics(s) == s.metrics # Null

\* s => s.metrics.crossMoves != null
HasCrossMoves(s) == s.metrics.crossMoves # Null

\* x > 0, x <= y and x > y on quotients with positive denominators; every
\* comparison with NaN is false
Positive(q) == ~IsNaN(q[1]) /\ q[1] > 0
AtMost(q, g) == ~IsNaN(q[1]) /\ q[1] * g[2] <= g[1] * q[2]
Above(q, g) == ~IsNaN(q[1]) /\ q[1] * g[2] > g[1] * q[2]

\* x.toFixed(digits) of a quotient that is not negative: the number of units
\* of 10^-digits, rounded to the nearest
toFixed(q, digits) ==
  LET unit == IF digits = 2 THEN 100 ELSE IF digits = 1 THEN 10 ELSE 1
      whole == q[1] \div q[2]
      rest == q[1] % q[2]
  IN whole * unit + (2 * rest * unit + q[2]) \div (2 * q[2])

\* A variant of userStatsOf that divides by the number of all results
userStatsOf_overAllResults(solves) ==
  LET solvesWithSplits == SelectSeq(solves, HasSplits)
      solvesWithRotations == SelectSeq(solves, HasRotations)
      n == Len(solvesWithSplits)
      m == Len(solvesWithRotations)
      perSecond == Len(solves) * RatioScale * SecondScale
  IN [cross |-> IF n > 0
                THEN <<PlusAll([i \in 1..n |-> solvesWithSplits[i].splits.cross]), perSecond>>
                ELSE <<0, 1>>,
      f2l |-> IF n > 0
              THEN <<PlusAll([i \in 1..n |-> solvesWithSplits[i].splits.f2l]), perSecond>>
              ELSE <<0, 1>>,
      ll |-> IF n > 0
             THEN <<PlusAll([i \in 1..n |-> solvesWithSplits[i].splits.ll]), perSecond>>
             ELSE <<0, 1>>,
      rotations |-> IF m > 0
                    THEN <<PlusAll([i \in 1..m |-> solvesWithRotations[i].metrics.f2lRotations[1]]),
                           Len(solves)>>
                    ELSE <<0, 1>>]

\* The averages updateGoalTable compares: seconds for the phases, a count for
\* the rotations; 0 where no result carries the value
userStatsOf(solves) ==
  LET solvesWithSplits == SelectSeq(solves, HasSplits)
      solvesWithRotations == SelectSeq(solves, HasRotations)
      n == Len(solvesWithSplits)
      m == Len(solvesWithRotations)
      perSecond == n * RatioScale * SecondScale
  IN [cross |-> IF n > 0
                THEN <<PlusAll([i \in 1..n |-> solvesWithSplits[i].splits.cross]), perSecond>>
                ELSE <<0, 1>>,
      f2l |-> IF n > 0
              THEN <<PlusAll([i \in 1..n |-> solvesWithSplits[i].splits.f2l]), perSecond>>
              ELSE <<0, 1>>,
      ll |-> IF n > 0
             THEN <<PlusAll([i \in 1..n |-> solvesWithSplits[i].splits.ll]), perSecond>>
             ELSE <<0, 1>>,
      rotations |-> IF m > 0
                    THEN <<PlusAll([i \in 1..m |-> solvesWithRotations[i].metrics.f2lRotations[1]]), m>>
                    ELSE <<0, 1>>]

\* One row of the goal table: the class of the average cell, the average
\* shown (Null for '-') and the status cell
GoalRow(avg, target, digits) ==
  [over |-> Above(avg, target),
   shown |-> IF Positive(avg) THEN <<toFixed(avg, digits)>> ELSE Null,
   status |-> IF Positive(avg)
              THEN (IF AtMost(avg, target) THEN "pass" ELSE "fail")
              ELSE "-"]

\* updateGoalTable(): what #goalTable holds afterwards.  session.solves.length
\* throws on a session that is no Session, the filters throw on a null
\* result; the table then keeps what it held.
updateGoalTable(ss, cid, goalKey, old) ==
  LET k == getCurrentSession(ss, cid) IN
  IF goalKey = "" THEN [prompt |-> TRUE]
  ELSE IF k # 0 /\ (~IsSessionObject(ss[k]) \/ HasNullSolve(ss[k].solves)) THEN old
  ELSE LET goal == GOALS[goalKey]
           userStats == userStatsOf(IF k = 0 THEN <<>> ELSE ss[k].solves)
       IN [cross |-> GoalRow(userStats.cross, goal.cross, 2),
           f2l |-> GoalRow(userStats.f2l, goal.f2l, 2),
           ll |-> GoalRow(userStats.ll, goal.ll, 2),
           rotations |-> GoalRow(userStats.rotations, goal.rotations, 1)]

\* #showGoals click
showGoals ==
  /\ openModals' = openModals \cup {"goals"}
  /\ goalTable' = updateGoalTable(sessions, currentSessionId, goalSelect, goalTable)
  /\ UNCHANGED << sessionVars, timerVars, uiVars, meshVars, settings, inspectionToggle,
                  currentScramble, confirmCallback, now, storage, editingSessionId,
                  typingInput, listenersAttached, goalSelect, analyticsContent,
                  editingSolveId, scrambler >>

\* #goalSelect change: the user picks one of keys in the goals dialog
goalSelectChange(keys) ==
  /\ "goals" \in openModals
  /\ \E goalKey \in keys :
       /\ goalKey # goalSelect
       /\ goalSelect' = goalKey
       /\ goalTable' = updateGoalTable(sessions, currentSessionId, goalKey, goalTable)
  /\ UNCHANGED << sessionVars, timerVars, uiVars, meshVars, settings, inspectionToggle,
                  currentScramble, confirmCallback, openModals, now, storage,
                  editingSessionId, typingInput, listenersAttached, analyticsContent,
                  editingSolveId, scrambler >>

\* #closeGoals click
closeGoals ==
  /\ openModals' = openModals \ {"goals"}
  /\ UNCHANGED << sessionVars, timerVars, uiVars, meshVars, settings, inspectionToggle,
                  currentScramble, confirmCallback, now, storage, editingSessionId,
                  typingInput, listenersAttached, goalVars, editingSolveId, scrambler >>

\* The averages showAnalytics writes: the phase breakdown (thousandths of a
\* millisecond over the number of results with splits), the cross moves and
\* F2L rotations to one decimal, and the two rates as <<yes, of>>.  Null is a
\* paragraph that is not written.  The session overview (counts, best, worst,
\* mean, deviation) is not part of this content.
analyticsOf(solves) ==
  LET solvesWithSplits == SelectSeq(solves, HasSplits)
      solvesWithMetrics == SelectSeq(solves, HasMetrics)
      crossMovesData == SelectSeq(solvesWithMetrics, HasCrossMoves)
      rotationsData == SelectSeq(solvesWithMetrics, HasRotations)
      n == Len(solvesWithSplits)
      yes(flags) == Cardinality({i \in 1..Len(flags) : flags[i]})
  IN [phases |->
        IF n > 0
        THEN [avgCross |-> <<PlusAll([i \in 1..n |-> solvesWithSplits[i].splits.cross]), n>>,
              avgF2L |-> <<PlusAll([i \in 1..n |-> solvesWithSplits[i].splits.f2l]), n>>,
              avgLL |-> <<PlusAll([i \in 1..n |-> solvesWithSplits[i].splits.ll]), n>>]
        ELSE Null,
      avgMoves |->
        IF Len(crossMovesData) > 0
        THEN <<toFixed(<<PlusAll([i \in 1..Len(crossMovesData) |->
                                    crossMovesData[i].metrics.crossMoves[1]]),
                         Len(crossMovesData)>>, 1)>>
        ELSE Null,
      avgRot |->
        IF Len(rotationsData) > 0
        THEN <<toFixed(<<PlusAll([i \in 1..Len(rotationsData) |->
                                    rotationsData[i].metrics.f2lRotations[1]]),
                         Len(rotationsData)>>, 1)>>
        ELSE Null,
      pauseRate |->
        IF Len(solvesWithMetrics) > 0
        THEN <<yes([i \in 1..Len(solvesWithMetrics) |-> solvesWithMetrics[i].metrics.f2lPause]),
               Len(solvesWithMetrics)>>
        ELSE Null,
      recogRate |->
        IF Len(solvesWithMetrics) > 0
        THEN <<yes([i \in 1..Len(solvesWithMetrics) |->
                      solvesWithMetrics[i].metrics.llRecognition]),
               Len(solvesWithMetrics)>>
        ELSE Null]

\* #showAnalytics click
showAnalytics ==
  /\ openModals' = openModals \cup {"analytics"}
  /\ LET k == getCurrentSession(sessions, currentSessionId) IN
     analyticsContent' =
       IF k # 0 /\ (~IsSessionObject(sessions[k]) \/ HasNullSolve(sessions[k].solves))
       THEN analyticsContent
       ELSE IF k = 0 \/ Len(sessions[k].solves) = 0 THEN [empty |-> TRUE]
       ELSE analyticsOf(sessions[k].solves)
  /\ UNCHANGED << sessionVars, timerVars, uiVars, meshVars, settings, inspectionToggle,
                  currentScramble, confirmCallback, now, storage, editingSessionId,
                  typingInput, listenersAttached, goalSelect, goalTable,
                  editingSolveId, scrambler >>

\* #closeAnalytics click
closeAnalytics ==
  /\ openModals' = openModals \ {"analytics"}
  /\ UNCHANGED << sessionVars, timerVars, uiVars, meshVars, settings, inspectionToggle,
                  currentScramble, confirmCallback, now, storage, editingSessionId,
                  typingInput, listenersAttached, goalVars, editingSolveId, scrambler >>

(***************************************************************************)
(* Specifications                                                          *)
(***************************************************************************)
\* The timer and the completion protocol of a timed solve
Next ==
  \/ toggleTypingMode
  \/ saveSettings({"meshBar"})
  \/ handleKeyDownSpace
  \/ handleKeyUpSpace(MaxSolves, Scrambles)
  \/ touchStart
  \/ touchEnd(MaxSolves, Scrambles)
  \/ timerTick
  \/ inspectionTick
  \/ handleKeyDownEscape
  \/ modalBackdropClick
  \/ meshTimeout
  \/ saveMeshMetrics(MaxSolves, Scrambles)
  \/ skipMeshMetrics(MaxSolves, Scrambles)

Spec == Init /\ [][Next]_vars

\* The statistics engine under the session store's operations on one session
InitStats == Init /\ ~inspectionToggle /\ currentScramble = "R U F"

NextStats ==
  \/ toggleTypingMode
  \/ addTypedTime(MaxStatSolves, TypedInputs, {"R U F"})
  \/ applyPenaltyToLastSolve
  \/ deleteLastSolve
  \/ confirmOk
  \/ confirmCancel
  \/ saveSettings({"confirmDelete"})

SpecStats == InitStats /\ [][NextStats]_vars

\* The split-ratio adjustment
InitMesh == Init /\ ~inspectionToggle /\ currentScramble = "R U F"

NextMesh == dragMove(ClientXs, TrackRects) \/ dragEnd

SpecMesh == InitMesh /\ [][NextMesh]_vars

\* The session store: create, select, rename, delete, clear, import, reload
InitSessions == Init /\ ~inspectionToggle /\ currentScramble = "R U F"

NextSessions ==
  \/ newSessionClick(MaxSessions, SessionTypes)
  \/ sessionItemClick
  \/ showSessionEditModal
  \/ saveSessionEdit(NewNames)
  \/ deleteCurrentSession
  \/ clearHistoryClick
  \/ confirmOk
  \/ confirmCancel
  \/ importData(ImportFiles)
  \/ reload({"R U F"})

SpecSessions == InitSessions /\ [][NextSessions]_vars

\* Persistence: the first load, later loads, import and export
InitPersist ==
  /\ sessions = StateLiteral.sessions
  /\ currentSessionId = StateLiteral.currentSessionId
  /\ settings = StateLiteral.settings
  /\ meshSplits = StateLiteral.meshSplits
  /\ timerState = "idle" /\ timerValue = 0
  /\ intervalId = Null /\ inspectionIntervalId = Null
  /\ inspectionTime = InspectionStart
  /\ spacePressed = FALSE
  /\ inspectionToggle = FALSE
  /\ currentSolve = Null
  /\ currentScramble = ""
  /\ confirmCallback = Null
  /\ openModals = {}
  /\ meshTimeouts = 0
  /\ activeIntervals = [timer |-> 0, inspection |-> 0]
  /\ now = 1
  /\ stats = NoStats
  /\ sessionList = <<>>
  /\ editingSessionId = Null
  /\ typingInput = <<>>
  /\ listenersAttached = FALSE
  /\ goalSelect = ""
  /\ goalTable = Null
  /\ analyticsContent = Null
  /\ editingSolveId = Null
  /\ scrambler = NoScramble
  /\ storage \in FirstUseItems

\* The handlers run once init has attached them; on a collection that holds an
\* element that is not a Session they throw and are left out
Usable ==
  /\ listenersAttached
  /\ \A i \in 1..Len(sessions) : IsSessionObject(sessions[i])

NextPersist ==
  \/ reload({"R U F"})
  \/ Usable /\ newSessionClick(2, {"normal"})
  \/ Usable /\ importData(Documents)
  \/ Usable /\ importData({exportData(sessions, settings, meshSplits)})
  \/ Usable /\ dragMove(CoarseClientXs, TrackRects)
  \/ Usable /\ dragEnd

SpecPersist == InitPersist /\ [][NextPersist]_vars

\* Typing mode: the field is edited, and Enter hands its content to addTypedTime
\* The page as first loaded, inspection off, for the typing and goals specifications
InitTyping == Init /\ ~inspectionToggle /\ currentScramble = "R U F"

NextTyping ==
  \/ toggleTypingMode
  \/ typingInputEvent(ParseInputs)
  \/ addTypedTime(MaxSolves, {typingInput}, {"R U F"})

SpecTyping == InitTyping /\ [][NextTyping]_vars

\* The goals dialog over sessions that timed solves and imported backups fill
NextGoals ==
  \/ importData(GoalDocuments)
  \/ touchStart
  \/ touchEnd(MaxSolves, {"R U F"})
  \/ timerTick
  \/ meshTimeout
  \/ saveMeshMetrics(MaxSolves, {"R U F"})
  \/ skipMeshMetrics(MaxSolves, {"R U F"})
  \/ showGoals
  \/ goalSelectChange(GoalKeys)
  \/ closeGoals

SpecGoals == InitTyping /\ [][NextGoals]_vars

\* The goals and the analytics dialog side by side, over imported backups and
\* typed entries
NextAverages ==
  \/ importData(GoalDocuments)
  \/ toggleTypingMode
  \/ addTypedTime(MaxSolves, TypedInputs, {"R U F"})
  \/ showGoals
  \/ goalSelectChange(GoalKeys)
  \/ closeGoals
  \/ showAnalytics
  \/ closeAnalytics

SpecAverages == InitTyping /\ [][NextAverages]_vars

\* Penalties given through the result dialog and the penalty keys
NextResults ==
  \/ importData(ResultDocuments)
  \/ sessionItemClick
  \/ historyItemClick
  \/ setPenalty
  \/ closeEditSolve
  \/ applyPenaltyToLastSolve

SpecResults == InitTyping /\ [][NextResults]_vars

\* Results removed through the result dialog and the delete keys. An open
\* dialog's .modal element receives the clicks outside the dialog (the
\* listener that closes it on e.target === modal), so the session list and the
\* import are used while no dialog is open; the keys work at any time.
NextRemoval ==
  \/ openModals = {} /\ importData(ResultDocuments)
  \/ openModals = {} /\ sessionItemClick
  \/ historyItemClick
  \/ deleteCurrentSolve
  \/ closeEditSolve
  \/ deleteLastSolve
  \/ confirmOk
  \/ confirmCancel
  \/ saveSettings({"confirmDelete"})

SpecRemoval == InitTyping /\ [][NextRemoval]_vars

\* Clearing the history of one of two sessions that hold results
NextClear ==
  \/ importData(ResultDocuments)
  \/ sessionItemClick
  \/ historyItemClick
  \/ closeEditSolve
  \/ applyPenaltyToLastSolve
  \/ clearHistoryClick
  \/ confirmOk
  \/ confirmCancel

SpecClear == InitTyping /\ [][NextClear]_vars

\* Commands whose target is gone: a session or a result dialog is opened,
\* the collection is replaced or shortened, and the dialog's buttons are used
NextUnknown ==
  \/ importData(ResultDocuments)
  \/ sessionItemClick
  \/ showSessionEditModal
  \/ saveSessionEdit(NewNames)
  \/ deleteCurrentSession
  \/ historyItemClick
  \/ deleteCurrentSolve
  \/ deleteLastSolve
  \/ confirmOk
  \/ confirmCancel

SpecUnknown == InitTyping /\ [][NextUnknown]_vars

(***************************************************************************)
(* generateScramble, statement by statement                                *)
(***************************************************************************)
moves == << "R", "L", "U", "D", "F", "B" >>
modifiers == << <<>>, <<"'">>, <<"2">> >>
ScrambleLength == 20

getAxis(move) ==
  IF move = "R" \/ move = "L" THEN "RL"
  ELSE IF move = "U" \/ move = "D" THEN "UD"
  ELSE IF move = "F" \/ move = "B" THEN "FB"
  ELSE ""

\* The condition of the do-while: a variant that compares the face only
Redraw_sameFaceOnly(move, lastMove, lastAxis) == move = lastMove

\* The condition of the do-while loop: the drawn move is drawn again
Redraw(move, lastMove, lastAxis) == move = lastMove \/ getAxis(move) = lastAxis

\* A token as text: the face followed by the modifier
TokenText(token) ==
  IF token = <<>> THEN ""
  ELSE IF Len(token) = 1 THEN token[1]
  ELSE token[1] \o token[2]

ScrambleFrame == << sessionVars, timerVars, uiVars, meshVars, settings, inspectionToggle,
                    confirmCallback, openModals, now, storage, editingSessionId,
                    typingInput, listenersAttached, goalVars, editingSolveId >>

\* A call of generateScramble begins: the declarations before the for loop.
\* Of the array scramble the model keeps the length (pushed) and the last two
\* tokens (before, token). One call is followed from its first statement to
\* its return.
scrambleCall ==
  /\ scrambler.pc = "idle"
  /\ scrambler' = [NoScramble EXCEPT !.pc = "for"]
  /\ UNCHANGED << ScrambleFrame, currentScramble >>

\* The test of the for loop, and after the loop the join and the return;
\* currentScramble receives the text of the tokens kept
scrambleFor ==
  /\ scrambler.pc = "for"
  /\ IF scrambler.i < ScrambleLength
     THEN /\ scrambler' = [scrambler EXCEPT !.pc = "draw"]
          /\ UNCHANGED currentScramble
     ELSE /\ scrambler' = [scrambler EXCEPT !.pc = "done"]
          /\ currentScramble' = TokenText(scrambler.before) \o " " \o TokenText(scrambler.token)
  /\ UNCHANGED ScrambleFrame

\* move = moves[Math.floor(Math.random() * moves.length)]
scrambleDraw ==
  /\ scrambler.pc = "draw"
  /\ \E index \in 1..Len(moves) :
       scrambler' = [scrambler EXCEPT !.pc = "while", !.move = moves[index]]
  /\ UNCHANGED << ScrambleFrame, currentScramble >>

\* while (move === lastMove || getAxis(move) === lastAxis)
scrambleWhile ==
  /\ scrambler.pc = "while"
  /\ scrambler' = [scrambler EXCEPT
                     !.pc = IF Redraw(scrambler.move, scrambler.lastMove, scrambler.lastAxis)
                            THEN "draw" ELSE "push"]
  /\ UNCHANGED << ScrambleFrame, currentScramble >>

\* The modifier is drawn, the token pushed, lastMove and lastAxis set, i++
scramblePush ==
  /\ scrambler.pc = "push"
  /\ \E index \in 1..Len(modifiers) :
       scrambler' = [scrambler EXCEPT
                       !.pc = "for",
                       !.i = scrambler.i + 1,
                       !.pushed = scrambler.pushed + 1,
                       !.before = scrambler.token,
                       !.token = <<scrambler.move>> \o modifiers[index],
                       !.lastMove = scrambler.move,
                       !.lastAxis = getAxis(scrambler.move)]
  /\ UNCHANGED << ScrambleFrame, currentScramble >>

NextScramble ==
  \/ scrambleCall
  \/ scrambleFor
  \/ scrambleDraw
  \/ scrambleWhile
  \/ scramblePush

SpecScramble == InitTyping /\ [][NextScramble]_vars

\* A draw that the loop condition lets through
FreshDraw ==
  /\ scrambleDraw
  /\ ~Redraw(scrambler'.move, scrambler.lastMove, scrambler.lastAxis)

\* Fair random choice: a call that keeps drawing draws a move of another axis
\* at some point, and a running call is never left standing
SpecScrambleFair ==
  /\ SpecScramble
  /\ WF_vars(scrambleFor)
  /\ WF_vars(scrambleWhile)
  /\ WF_vars(scramblePush)
  /\ WF_vars(scrambleDraw)
  /\ SF_vars(FreshDraw)

\* Identifiers: sessions are created, solves are timed and entries are typed
\* while the clock advances on its own
NextIds ==
  \/ clockTick
  \/ newSessionClick(MaxSessions - 1, {"normal"})
  \/ toggleTypingMode
  \/ addTypedTime(MaxSolves + 1, {<<"1", "2">>}, {"R U F"})
  \/ saveSettings({"meshBar"})
  \/ touchStart
  \/ touchEnd(MaxSolves + 1, {"R U F"})
  \/ timerTick

SpecIds == InitTyping /\ [][NextIds]_vars

\* The parked solve: timer stops, the delayed opening of the metrics dialog and
\* its answers, with the mesh bar switched on and off between solves
NextPending ==
  \/ saveSettings({"meshBar"})
  \/ touchStart
  \/ touchEnd(MaxSolves + 1, {"R U F"})
  \/ timerTick
  \/ meshTimeout
  \/ saveMeshMetrics(MaxSolves + 1, {"R U F"})
  \/ skipMeshMetrics(MaxSolves + 1, {"R U F"})

SpecPending == InitTyping /\ [][NextPending]_vars

\* The inspection countdown: the timer driven by Space and by touch, with the
\* inspection switched on or off, Escape and the typing-mode switch
InitInspection == Init /\ currentScramble = "R U F"

NextInspection ==
  \/ handleKeyDownSpace
  \/ handleKeyUpSpace(MaxSolves, {"R U F"})
  \/ touchStart
  \/ touchEnd(MaxSolves, {"R U F"})
  \/ timerTick
  \/ inspectionTick
  \/ handleKeyDownEscape
  \/ toggleTypingMode
  \/ meshTimeout
  \/ skipMeshMetrics(MaxSolves, {"R U F"})

SpecInspection == InitInspection /\ [][NextInspection]_vars

\* setInterval delivers the countdown callback every second for as long as the
\* interval is registered
SpecInspectionFair == SpecInspection /\ WF_vars(inspectionTick)

\* Typed entries beside timed solves: the timer is driven by touch, a stopped
\* solve waits in the metrics dialog
NextTyped ==
  \/ toggleTypingMode
  \/ saveSettings({"meshBar"})
  \/ touchStart
  \/ touchEnd(MaxSolves, {"R U F"})
  \/ timerTick
  \/ meshTimeout
  \/ saveMeshMetrics(MaxSolves, {"R U F"})
  \/ skipMeshMetrics(MaxSolves, {"R U F"})
  \/ addTypedTime(MaxSolves, EntryInputs, {"R U F"})

SpecTyped == InitTyping /\ [][NextTyped]_vars

\* Timed solves completed through the metrics dialog while the dividers move
InitSplits == Init /\ ~inspectionToggle /\ currentScramble = "R U F"

NextSplits ==
  \/ touchStart
  \/ touchEnd(MaxSolves, {"R U F"})
  \/ timerTick
  \/ meshTimeout
  \/ saveMeshMetrics(MaxSolves, {"R U F"})
  \/ dragMove(CoarseClientXs, TrackRects)

SpecSplits == InitSplits /\ [][NextSplits]_vars

(***************************************************************************)
(* Properties.  The right-hand sides below are written from the statement  *)
(* of each property, over sets of indices, not with the operators above.   *)
(***************************************************************************)
CurSolves == sessions[getCurrentSession(sessions, currentSessionId)].solves

\* The last n elements of s (n <= Len(s))
Window(s, n) == [i \in 1..n |-> s[Len(s) - n + i]]

Voids(w) == {i \in 1..Len(w) : w[i].penalty = "DNF"}

Projected(r) ==
  CASE r.penalty = "DNF" -> Infinity
    [] r.penalty = "+2" -> r.time + 2000
    [] OTHER -> r.time

RECURSIVE SumOver(_, _)
SumOver(w, S) ==
  IF S = {} THEN 0
  ELSE LET i == CHOOSE j \in S : TRUE IN Projected(w[i]) + SumOver(w, S \ {i})

LeastOver(w, S) == CHOOSE v \in {Projected(w[i]) : i \in S} :
                     \A i \in S : v <= Projected(w[i])
GreatestOver(w, S) == CHOOSE v \in {Projected(w[i]) : i \in S} :
                        \A i \in S : v >= Projected(w[i])

Timed(t, p) == [id |-> 1, time |-> t, scramble |-> "R U F", splits |-> Null,
                metrics |-> Null, penalty |-> p, typed |-> FALSE]

ExampleFive ==
  << Timed(10000, "none"), Timed(11000, "none"), Timed(12000, "none"),
     Timed(13000, "none"), Timed(14000, "none") >>

ExampleFiveOneVoid == [ExampleFive EXCEPT ![3].penalty = "DNF"]

\* C1: with no void among the last n results (n >= 3), calculateAverage is
\* (sum - smallest - largest) / (n - 2) of their effective times, whatever
\* precedes them; the statistics panel shows that value for n = 5; and
\* [10000, 11000, 12000, 13000, 14000] gives 36000 / 3 = 12000.
C1_TrimmedMeanWithoutVoid ==
  LET s == CurSolves IN
  /\ \A n \in 3..Len(s) :
       LET w == Window(s, n)
           all == 1..n
       IN Voids(w) = {} =>
            /\ calculateAverage(s, n) =
                 <<SumOver(w, all) - LeastOver(w, all) - GreatestOver(w, all), n - 2>>
            /\ calculateAverage(s, n) = calculateAverage(w, n)
            /\ n = 5 => stats.ao5 = calculateAverage(s, n)
  /\ calculateAverage(ExampleFive, 5) = <<36000, 3>>

C1_Witness ==
  LET s == CurSolves IN
  /\ Len(s) = 5
  /\ s[1].penalty = "DNF"
  /\ Voids(Window(s, 4)) = {}
  /\ \E i, j \in 2..5 : s[i].penalty = "+2" /\ s[j].penalty = "none"
  /\ calculateAverage(s, 4) # Null

\* C2: with exactly one void among the last n results (n >= 3),
\* calculateAverage is defined and finite: the mean of the n - 1 finite
\* effective times without the smallest of them; the panel shows it for
\* n = 5; [10000, 11000, void, 13000, 14000] gives (11000+13000+14000) / 3.
C2_OneVoidIsTrimmedAway ==
  LET s == CurSolves IN
  /\ \A n \in 3..Len(s) :
       LET w == Window(s, n)
           finite == (1..n) \ Voids(w)
       IN Cardinality(Voids(w)) = 1 =>
            /\ calculateAverage(s, n) # Null
            /\ calculateAverage(s, n) =
                 <<SumOver(w, finite) - LeastOver(w, finite), n - 2>>
            /\ calculateAverage(s, n)[1] < Infinity
            /\ n = 5 => stats.ao5 = calculateAverage(s, n)
  /\ calculateAverage(ExampleFiveOneVoid, 5) = <<11000 + 13000 + 14000, 3>>

C2_Witness ==
  LET s == CurSolves IN
  /\ Len(s) = 5
  /\ Cardinality(Voids(s)) = 1
  /\ \E i \in 1..5 : s[i].penalty = "+2"
  /\ stats.ao5 # Null

\* C3: with two or more voids among the last n results calculateAverage is
\* null, whatever the other values and whatever precedes the window.
C3_TwoVoidsUndefined ==
  LET s == CurSolves IN
  /\ \A n \in 1..Len(s) :
       Cardinality(Voids(Window(s, n))) >= 2 => calculateAverage(s, n) = Null
  /\ (Len(s) >= 5 /\ Cardinality(Voids(Window(s, 5))) >= 2) => stats.ao5 = Null

C3_Witness ==
  LET s == CurSolves IN
  /\ Len(s) = 5
  /\ Cardinality(Voids(s)) = 2
  /\ Cardinality(Voids(Window(s, 2))) = 2
  /\ s[1].penalty = "none" /\ s[2].penalty = "+2"
  /\ stats.ao5 = Null

\* C4: calculateAverage is null for every positive n greater than the
\* number of results, however many of them are void.
C4_FewerThanNUndefined ==
  LET s == CurSolves IN
  /\ \A n \in ((Len(s) + 1)..(Len(s) + 3)) \cup {5, 12, 50, 100} :
       Len(s) < n => calculateAverage(s, n) = Null
  /\ Len(s) < 5 => stats.ao5 = Null
  /\ Len(s) < 12 => stats.ao12 = Null

C4_Witness ==
  LET s == CurSolves IN
  /\ Len(s) = 4
  /\ Cardinality(Voids(s)) = 1
  /\ stats.ao5 = Null
  /\ stats.best # Null

\* C5: the panel's best, worst and mean are the minimum, maximum and mean of
\* the effective times of exactly the non-void results of the current
\* session, and all three are '-' when there is no such result.
C5_BestWorstMean ==
  LET s == CurSolves
      valid == (1..Len(s)) \ Voids(s)
  IN IF valid = {}
     THEN stats.best = Null /\ stats.worst = Null /\ stats.mean = Null
     ELSE /\ stats.best = <<LeastOver(s, valid), 1>>
          /\ stats.worst = <<GreatestOver(s, valid), 1>>
          /\ stats.mean = <<SumOver(s, valid), Cardinality(valid)>>

C5_Witness ==
  LET s == CurSolves IN
  /\ \E i, j, k \in 1..Len(s) :
       s[i].penalty = "DNF" /\ s[j].penalty = "+2" /\ s[k].penalty = "none"
  /\ stats.best # Null
  /\ stats.best # stats.worst

C7_EffectiveTimeProjection ==
  LET s == CurSolves
      valid == (1..Len(s)) \ Voids(s)
      k == getCurrentSession(sessions, currentSessionId)
  IN
  /\ \A i \in 1..Len(s) : getEffectiveTime(s[i]) = Projected(s[i])
  /\ getEffectiveTime(Timed(9000, "+2")) = 11000
  /\ getEffectiveTime(Timed(9000, "DNF")) = Infinity
  /\ getEffectiveTime(Timed(9000, "none")) = 9000
  /\ valid # {} =>
       /\ sessionList[k] = <<SumOver(s, valid), Cardinality(valid)>>
       /\ stats.mean = sessionList[k]
       /\ \E i \in valid : stats.best = <<Projected(s[i]), 1>>
       /\ \E i \in valid : stats.worst = <<Projected(s[i]), 1>>
  /\ (Len(s) >= 5 /\ Voids(Window(s, 5)) = {}) =>
       stats.ao5 = <<SumOver(Window(s, 5), 1..5) - LeastOver(Window(s, 5), 1..5)
                       - GreatestOver(Window(s, 5), 1..5), 3>>

C7_Witness ==
  LET s == CurSolves IN
  /\ Len(s) = 5
  /\ Voids(s) = {}
  /\ Cardinality({i \in 1..5 : s[i].penalty = "+2"}) >= 2
  /\ stats.ao5 # Null
  /\ sessionList[1] # Null

\* Some session gains exactly one element at its end, a Result of duration t
\* and scramble scr, and nothing else in the collection changes.
AppendedCarrying(t, scr) ==
  /\ Len(sessions') = Len(sessions)
  /\ \E k \in 1..Len(sessions) :
       /\ Len(sessions'[k].solves) = Len(sessions[k].solves) + 1
       /\ sessions' = [sessions EXCEPT ![k].solves =
                         Append(@, sessions'[k].solves[Len(sessions'[k].solves)])]
       /\ LET r == sessions'[k].solves[Len(sessions'[k].solves)]
          IN r # Null /\ r.time = t /\ r.scramble = scr

\* A step of stopTimer: the running timer becomes idle and keeps its value,
\* and a solve is parked behind the mesh bar or the collection changes.
StopStep ==
  /\ timerState = "running" /\ timerState' = "idle"
  /\ timerValue' = timerValue
  /\ meshTimeouts' = meshTimeouts + 1 \/ sessions' # sessions

\* C8: every stop leads to exactly one appended Result with that stop's
\* duration and scramble: appended in the stop step itself when the mesh bar
\* is off; parked when it is on, and a parked solve stays parked until a step
\* appends it.  No step changes the collection except by appending one such
\* Result.
C8_EveryStopAppendsOnce ==
  [][ /\ (StopStep /\ ~settings.meshBar) =>
           AppendedCarrying(timerValue, currentScramble)
      /\ (StopStep /\ settings.meshBar) =>
           /\ sessions' = sessions
           /\ currentSolve' # Null
           /\ currentSolve'.time = timerValue
           /\ currentSolve'.scramble = currentScramble
      /\ currentSolve # Null =>
           \/ currentSolve' = currentSolve
           \/ AppendedCarrying(currentSolve.time, currentSolve.scramble)
      /\ sessions' # sessions =>
           \E t \in TickTimes, scr \in Scrambles : AppendedCarrying(t, scr)
    ]_vars

\* A step of skipMeshMetrics on a parked solve: the metrics dialog closes and
\* the parked solve is appended without metrics.
SkipStep ==
  /\ "meshInput" \in openModals /\ "meshInput" \notin openModals'
  /\ currentSolve # Null /\ currentSolve' = Null
  /\ AppendedCarrying(currentSolve.time, currentSolve.scramble)
  /\ LET k == getCurrentSession(sessions, currentSessionId)
     IN sessions'[k].solves[Len(sessions'[k].solves)].metrics = Null

\* C9: with the mesh bar enabled, the Result stored by a skip carries the
\* three splits time * r1, time * (r2 - r1), time * (1 - r2) of the ratios in
\* force, and no metrics.
C9_SkippedResultKeepsSplits ==
  [][ (SkipStep /\ settings.meshBar) =>
        LET k == getCurrentSession(sessions, currentSessionId)
            r == sessions'[k].solves[Len(sessions'[k].solves)]
        IN /\ r.metrics = Null
           /\ r.splits = [cross |-> r.time * meshSplits[1],
                          f2l |-> r.time * (meshSplits[2] - meshSplits[1]),
                          ll |-> r.time * (1000 - meshSplits[2])]
    ]_vars

\* C10: from (0.2, 0.65), after any sequence of updateMeshSplit calls,
\* 0.1 <= r1 <= r2 - 0.1 and r1 + 0.1 <= r2 <= 0.9 (in thousandths).
C10_RatioBounds ==
  /\ LessEq(100, meshSplits[1])
  /\ LessEq(meshSplits[1], Minus(meshSplits[2], 100))
  /\ LessEq(Plus(meshSplits[1], 100), meshSplits[2])
  /\ LessEq(meshSplits[2], 900)

\* C11 as stated: setRatio(0, 0.65) at (0.2, 0.65) sets r1 to r2 - 0.1 = 0.55
\* and leaves r2 unchanged.
C11_SetRatioGives055 ==
  meshSplits = <<200, 650>> => updateMeshSplit(meshSplits, 0, 650) = <<550, 650>>

\* C11, amended: setRatio(0, 0.65) at (0.2, 0.65) sets r1 to 0.4, the upper
\* end of its clamp, and leaves r2 unchanged; in every reachable state with
\* numeric ratios a proposal of 0.4 or more for index 0 gives
\* r1 = min(0.4, r2 - 0.1), and r1 = r2 - 0.1 is taken only when r2 = 0.5.
C11_SetRatioClampsTo04 ==
  /\ updateMeshSplit(<<200, 650>>, 0, 650) = <<400, 650>>
  /\ (~IsNaN(meshSplits[1]) /\ ~IsNaN(meshSplits[2])) =>
       \A x \in {400, 550, 650, 1000, Infinity} :
         LET after == updateMeshSplit(meshSplits, 0, x) IN
         /\ after[2] = meshSplits[2]
         /\ after[1] = 400
         /\ after[1] = meshSplits[2] - 100 <=> meshSplits[2] = 500

C11_Witness == meshSplits = <<400, 650>>

\* The Result a step appends to the current session
Appended == LET k == getCurrentSession(sessions, currentSessionId)
            IN sessions'[k].solves[Len(sessions'[k].solves)]

AppendsToCurrent ==
  LET k == getCurrentSession(sessions, currentSessionId) IN
  /\ Len(sessions') = Len(sessions)
  /\ Len(sessions'[k].solves) = Len(sessions[k].solves) + 1

\* C12: a Result stored with splits has cross = time * r1,
\* f2l = time * (r2 - r1), ll = time * (1 - r2) for the ratios in force in
\* the step that stores it; the three add up to time, none is negative and
\* f2l is at least a tenth of time (splits are in thousandths of a ms).
C12_SplitsPartitionDuration ==
  [][ (AppendsToCurrent /\ Appended # Null /\ Appended.splits # Null) =>
        LET r == Appended
            sp == r.splits
        IN /\ ~IsNaN(meshSplits[1]) /\ ~IsNaN(meshSplits[2])
           /\ sp.cross = r.time * meshSplits[1]
           /\ sp.f2l = r.time * (meshSplits[2] - meshSplits[1])
           /\ sp.ll = r.time * (1000 - meshSplits[2])
           /\ sp.cross + sp.f2l + sp.ll = r.time * 1000
           /\ sp.cross >= 0 /\ sp.f2l >= 0 /\ sp.ll >= 0
           /\ sp.f2l * 10 >= r.time * 1000
    ]_vars

\* C13: Escape while the timer is running clears every tick source, leaves
\* the timer idle with timerValue 0 and spacePressed false, and changes
\* neither any session, nor the pending solve, nor what is stored.
C13_CancelDiscardsRunningSolve ==
  [][ (timerState = "running" /\ handleKeyDownEscape) =>
        /\ timerState' = "idle"
        /\ timerValue' = 0
        /\ spacePressed' = FALSE
        /\ intervalId' = Null /\ inspectionIntervalId' = Null
        /\ activeIntervals' = [timer |-> 0, inspection |-> 0]
        /\ sessions' = sessions
        /\ currentSolve' = currentSolve
        /\ storage' = storage
    ]_vars

\* A parked solve of 9000 ms beside an idle timer at 0: the timer was started
\* again after that stop and left 'running' without a stop, i.e. cancelled.
C13_Witness ==
  /\ timerState = "idle" /\ timerValue = 0 /\ ~spacePressed
  /\ currentSolve # Null /\ currentSolve.time = 9000
  /\ activeIntervals = [timer |-> 0, inspection |-> 0]

\* C14: Escape while the inspection countdown is running stops the countdown's
\* tick source and returns the timer to idle, without starting a solve and
\* without producing a Result.
C14_EscapeCancelsInspection ==
  [][ (timerState = "inspection" /\ handleKeyDownEscape) =>
        /\ timerState' = "idle"
        /\ inspectionIntervalId' = Null
        /\ activeIntervals'.inspection = 0
        /\ sessions' = sessions
        /\ currentSolve' = currentSolve
    ]_vars

\* C15: at most one interval is registered at any time; the timer's interval
\* is registered exactly while timerState is 'running' and the countdown's
\* exactly while it is 'inspection'; and a registered interval is always the
\* one whose handle the state holds, so none is overwritten or left behind.
C15_OneTickSource ==
  /\ activeIntervals.timer + activeIntervals.inspection <= 1
  /\ activeIntervals.timer = (IF timerState = "running" THEN 1 ELSE 0)
  /\ activeIntervals.inspection = (IF timerState = "inspection" THEN 1 ELSE 0)
  /\ activeIntervals.timer = (IF intervalId # Null THEN 1 ELSE 0)
  /\ activeIntervals.inspection = (IF inspectionIntervalId # Null THEN 1 ELSE 0)

\* The timer runs after a countdown that was ended by a release, with a solve
\* of an earlier stop still parked
C15_Witness ==
  /\ timerState = "running" /\ inspectionToggle
  /\ inspectionTime > 0 /\ inspectionTime < InspectionStart
  /\ activeIntervals = [timer |-> 1, inspection |-> 0]
  /\ currentSolve # Null

\* The stop of a running timer is not held back by a bound of the model
StopWithinBounds ==
  /\ Len(CurSolves) < MaxSolves
  /\ meshTimeouts < MaxTimeouts

\* C16: while the timer is running with typing mode off, pressing and
\* releasing Space stops it.  The key-down changes nothing while running, so
\* the pair stops the timer exactly if the key-up step can: it must be able
\* to leave the timer idle with its interval cleared and a solve created
\* (parked or appended).
C16_SpaceStopsRunningTimer ==
  (timerState = "running" /\ ~settings.typingMode /\ StopWithinBounds) =>
    ENABLED ( /\ handleKeyUpSpace(MaxSolves, Scrambles)
              /\ timerState' = "idle"
              /\ intervalId' = Null
              /\ (currentSolve' # Null \/ sessions' # sessions) )

\* C17: a Space key-down from idle never makes the timer run: it sets
\* spacePressed and at most starts the countdown; and the timer starts
\* running only in a Space release or touch end from idle or inspection, or
\* in the countdown's tick that reaches 0.
C17_HoldToReadyReleaseToStart ==
  [][ /\ (timerState = "idle" /\ handleKeyDownSpace) =>
           /\ timerState' # "running"
           /\ spacePressed'
           /\ timerState' = "inspection" <=> inspectionToggle
           /\ intervalId' = Null
      /\ (timerState # "running" /\ timerState' = "running") =>
           \/ /\ timerState \in {"idle", "inspection"}
              /\ handleKeyUpSpace(MaxSolves, Scrambles) \/ touchEnd(MaxSolves, Scrambles)
           \/ /\ timerState = "inspection"
              /\ inspectionTick
              /\ inspectionTime' <= 0
    ]_vars

\* The countdown ran out while Space was still held, and the timer runs
C17_Witness ==
  /\ timerState = "running"
  /\ inspectionTime = 0
  /\ spacePressed
  /\ intervalId # Null


\* C18: in every reachable state of the session store (create, delete, rename,
\* select, clear, import, load) there is at least one session and
\* currentSessionId is the id of exactly one session of the collection.
C18_CurrentSessionAlwaysExists ==
  /\ Len(sessions) >= 1
  /\ Cardinality({i \in 1..Len(sessions) : sessions[i].id = currentSessionId}) = 1

\* The step of the confirm dialog that runs deleteSession on an existing session
DeleteStep ==
  /\ confirmCallback # Null
  /\ confirmCallback.op = "deleteSession"
  /\ editingSessionId # Null
  /\ FindSession(sessions, editingSessionId[1]) # 0
  /\ confirmOk

\* C19: deleteSession(id) on an existing session removes exactly that session
\* and keeps the order of the others; a deleted current session hands over to
\* the first remaining one; when none remains one new 'normal' session is
\* created and made current; otherwise currentSessionId is unchanged.
C19_DeleteSession ==
  [][ DeleteStep =>
        LET id == editingSessionId[1]
            index == FindSession(sessions, id)
            n == Len(sessions)
        IN /\ n > 1 =>
                /\ Len(sessions') = n - 1
                /\ \A i \in 1..(n - 1) :
                     sessions'[i] = IF i < index THEN sessions[i] ELSE sessions[i + 1]
                /\ currentSessionId = id => currentSessionId' = sessions'[1].id
           /\ n = 1 =>
                /\ Len(sessions') = 1
                /\ sessions'[1].type = "normal"
                /\ sessions'[1].solves = <<>>
                /\ currentSessionId' = sessions'[1].id
           /\ currentSessionId # id => currentSessionId' = currentSessionId ]_vars

\* The first session of the two-session backup was current and has been
\* deleted: the second one is what remains, and it is current
C19_Witness ==
  /\ Len(sessions) = 1
  /\ sessions[1].name = <<"Cross", 2>>
  /\ sessions[1].id = 1
  /\ currentSessionId = 1

\* The only session was deleted after the clock moved on: a new default
\* session, created at that later time, is the only one and is current
C19_WitnessRecreated ==
  /\ Len(sessions) = 1
  /\ sessions[1].name = <<"Normal", 1>>
  /\ sessions[1].id > 1
  /\ currentSessionId = sessions[1].id

FirstUse(doc) ==
  \/ ~IsObject(doc)
  \/ "sessionsNotArray" \in DOMAIN doc
  \/ "sessions" \notin DOMAIN doc
  \/ Len(doc.sessions) = 0
  \/ \E i \in 1..Len(doc.sessions) : doc.sessions[i].id = NoId

\* C21: on first use (persisted state absent, holding no sessions, or
\* structurally invalid) the load does not crash, and init ends with exactly
\* one session, of type 'normal', which is the current session.
C21_FirstUseCreatesDefaultSession ==
  [][ (FirstUse(storage) /\ reload({"R U F"})) =>
        /\ listenersAttached'
        /\ Len(sessions') = 1
        /\ sessions'[1].type = "normal"
        /\ sessions'[1].solves = <<>>
        /\ currentSessionId' = sessions'[1].id ]_vars


NotAnExport(data) ==
  \/ ~IsObject(data)
  \/ "sessionsNotArray" \in DOMAIN data
  \/ /\ "sessions" \in DOMAIN data
     /\ \E i \in 1..Len(data.sessions) : data.sessions[i].id = NoId

\* C23: a failed import is aborted: sessions, currentSessionId, settings and
\* meshSplits are as before, in memory and in storage.
C23_FailedImportChangesNothing ==
  [][ \A data \in Documents :
        (Usable /\ NotAnExport(data) /\ importData({data})) =>
          UNCHANGED << sessions, currentSessionId, settings, meshSplits, storage >> ]_vars


\* C24: exporting and importing the exported document reproduces the
\* collection: the same sessions in the same order with the same names, for
\* every result the same id, duration, penalty, splits and metrics, and the
\* same meshSplits.
C24_ExportImportRoundTrip ==
  [][ (Usable /\ importData({exportData(sessions, settings, meshSplits)})) =>
        /\ Len(sessions') = Len(sessions)
        /\ \A i \in 1..Len(sessions) :
             /\ sessions'[i].name = sessions[i].name
             /\ Len(sessions'[i].solves) = Len(sessions[i].solves)
             /\ \A j \in 1..Len(sessions[i].solves) :
                  /\ sessions'[i].solves[j].id = sessions[i].solves[j].id
                  /\ sessions'[i].solves[j].time = sessions[i].solves[j].time
                  /\ sessions'[i].solves[j].penalty = sessions[i].solves[j].penalty
                  /\ sessions'[i].solves[j].splits = sessions[i].solves[j].splits
                  /\ sessions'[i].solves[j].metrics = sessions[i].solves[j].metrics
        /\ meshSplits' = meshSplits ]_vars

\* C25: saveState followed by loadState gives back the sessions,
\* currentSessionId, settings and meshSplits that were saved, in every
\* reachable state.
C25_SaveLoadRoundTrip ==
  Usable =>
    loadState(Snapshot(sessions, currentSessionId, settings, meshSplits))
      = [sessions |-> sessions, currentSessionId |-> currentSessionId,
         settings |-> settings, meshSplits |-> meshSplits]


\* The entry grammar, written from its description: an entry is 'dnf' in any
\* letter case, or a numeric body SS[.fraction] or MM:SS[.fraction], with an
\* optional trailing '+' or '+2'
AllDigits(str) == \A i \in 1..Len(str) : str[i] \in DigitChars

PlainSeconds(str) ==
  LET dots == {i \in 1..Len(str) : str[i] = "."} IN
  \/ /\ dots = {}
     /\ str # <<>>
     /\ AllDigits(str)
  \/ /\ Cardinality(dots) = 1
     /\ Len(str) >= 2
     /\ \A i \in 1..Len(str) : i \in dots \/ str[i] \in DigitChars

WellFormedBody(str) ==
  LET colons == {i \in 1..Len(str) : str[i] = ":"} IN
  \/ colons = {} /\ PlainSeconds(str)
  \/ /\ Cardinality(colons) = 1
     /\ \E c \in colons :
          /\ c > 1
          /\ AllDigits(SubSeq(str, 1, c - 1))
          /\ PlainSeconds(SubSeq(str, c + 1, Len(str)))

EntryText(input) == trim(input)

HasPlusSuffix(input) == LET t == EntryText(input) IN t # <<>> /\ t[Len(t)] \in {"+", "2"}
                          /\ (t[Len(t)] = "+" \/ (Len(t) >= 2 /\ t[Len(t) - 1] = "+"))

EntryBody(input) ==
  LET t == EntryText(input) IN
  IF ~HasPlusSuffix(input) THEN t
  ELSE trim(SubSeq(t, 1, Len(t) - (IF t[Len(t)] = "+" THEN 1 ELSE 2)))

IsVoidEntry(input) ==
  LET t == EntryText(input) IN
  /\ Len(t) = 3
  /\ t[1] \in {"d", "D"} /\ t[2] \in {"n", "N"} /\ t[3] \in {"f", "F"}

\* A body with one leading sign removed: a signed number still counts as a
\* body that parses
Unsigned(str) ==
  IF str # <<>> /\ str[1] \in {"+", "-"} THEN SubSeq(str, 2, Len(str)) ELSE str

\* The milliseconds a plain SS[.fraction] stands for (three fraction digits)
SecondsMs(str) ==
  LET dots == {i \in 1..Len(str) : str[i] = "."}
      d == IF dots = {} THEN Len(str) + 1 ELSE CHOOSE i \in dots : TRUE
      fraction == SubSeq(str, d + 1, Len(str)) \o <<"0", "0", "0">>
  IN 1000 * DecimalValue(SubSeq(str, 1, d - 1)) + DecimalValue(SubSeq(fraction, 1, 3))

\* The milliseconds a well-formed body stands for
BodyMs(str) ==
  LET colons == {i \in 1..Len(str) : str[i] = ":"} IN
  IF colons = {} THEN SecondsMs(str)
  ELSE LET c == CHOOSE i \in colons : TRUE
       IN 60000 * DecimalValue(SubSeq(str, 1, c - 1))
            + SecondsMs(SubSeq(str, c + 1, Len(str)))

\* Enter is pressed in typing mode with typingInput in the field
EnterStep ==
  /\ settings.typingMode
  /\ addTypedTime(MaxSolves, {typingInput}, {"R U F"})

Rejects == sessions' = sessions

Accepts(t, p) ==
  /\ AppendsToCurrent
  /\ Appended.time = t
  /\ Appended.penalty = p

\* C26: an entry whose numeric body does not parse, or whose duration is <= 0
\* or above 3,600,000 ms, is rejected; every accepted entry that is not void
\* has 0 < time <= 3,600,000; "abc" and "0" are rejected, "1:05.32" is
\* accepted as 65320 ms without penalty.
C26_RejectsWhatDoesNotParse ==
  [][ EnterStep =>
        LET input == typingInput
            body == EntryBody(input)
        IN /\ (/\ ~IsVoidEntry(input)
               /\ \/ ~WellFormedBody(Unsigned(body))
                  \/ /\ WellFormedBody(body)
                     /\ (BodyMs(body) <= 0 \/ BodyMs(body) > 3600000)) => Rejects
           /\ (~Rejects /\ Appended.penalty # "DNF") =>
                 (0 < Appended.time /\ Appended.time <= 3600000)
           /\ input = <<"a", "b", "c">> => Rejects
           /\ input = <<"0">> => Rejects
           /\ input = <<"1", ":", "0", "5", ".", "3", "2">> => Accepts(65320, "none") ]_vars


\* C27: 'dnf' in any letter case is a void result of 0 ms; an entry ending in
\* '+' or '+2' gets the penalty +2, its number is read without the suffix and
\* the stored duration does not include the two seconds ("12.5+" is 12500 ms
\* with +2); every other accepted entry has no penalty.
C27_VoidAndPlusTwoEntries ==
  [][ EnterStep =>
        LET input == typingInput
            body == EntryBody(input)
        IN /\ IsVoidEntry(input) => Accepts(0, "DNF")
           /\ (~IsVoidEntry(input) /\ ~Rejects) =>
                 /\ Appended.penalty = (IF HasPlusSuffix(input) THEN "+2" ELSE "none")
                 /\ WellFormedBody(body) => Appended.time = BodyMs(body)
           /\ input = <<"1", "2", ".", "5", "+">> => Accepts(12500, "+2")
           /\ input = <<"1", "2", ".", "5", "+", "2">> => Accepts(12500, "+2") ]_vars

\* "12.5+" has been entered: the session holds 12500 ms with +2
C27_Witness ==
  \E i \in 1..Len(sessions) : \E j \in 1..Len(sessions[i].solves) :
    LET r == sessions[i].solves[j]
    IN r.typed /\ r.time = 12500 /\ r.penalty = "+2"

\* Enter is pressed in typing mode with input in the field, timed solves allowed
EnterWith(input) ==
  /\ settings.typingMode
  /\ addTypedTime(MaxSolves, {input}, {"R U F"})

\* C28: a rejected entry creates no result and leaves the sessions, the
\* scramble and the parked solve as they were; an accepted entry appends
\* exactly one result to the current session, typed, without splits and
\* without metrics, and neither the mesh bar nor the metrics dialog opens,
\* whether or not the mesh bar is enabled.
C28_TypedEntryBypassesMeshBar ==
  [][ \A input \in EntryInputs :
        EnterWith(input) =>
          IF parseTimeInput(input) = Null
          THEN /\ sessions' = sessions
               /\ storage' = storage
               /\ currentScramble' = currentScramble
               /\ currentSolve' = currentSolve
          ELSE /\ AppendsToCurrent
               /\ \A i \in 1..Len(sessions) :
                    i # getCurrentSession(sessions, currentSessionId)
                      => sessions'[i] = sessions[i]
               /\ LET k == getCurrentSession(sessions, currentSessionId)
                  IN SubSeq(sessions'[k].solves, 1, Len(sessions[k].solves))
                       = sessions[k].solves
               /\ Appended.typed
               /\ Appended.splits = Null
               /\ Appended.metrics = Null
               /\ currentSolve' = currentSolve
               /\ meshTimeouts' = meshTimeouts
               /\ openModals' = openModals ]_vars

\* A typed result stands in the session while the mesh bar is enabled and a
\* timed solve is still parked
C28_Witness ==
  /\ settings.meshBar
  /\ currentSolve # Null
  /\ meshTimeouts = 0
  /\ \E i \in 1..Len(sessions) : \E j \in 1..Len(sessions[i].solves) :
       sessions[i].solves[j].typed /\ sessions[i].solves[j].id = now


\* The results of the current session, and those that carry splits or the
\* F2L rotation count
CurrentSolves ==
  LET k == getCurrentSession(sessions, currentSessionId)
  IN IF k = 0 THEN <<>> ELSE sessions[k].solves

WithSplits ==
  {i \in 1..Len(CurrentSolves) : IsSolve(CurrentSolves[i]) /\ CurrentSolves[i].splits # Null}

WithRotations ==
  {i \in 1..Len(CurrentSolves) :
     /\ IsSolve(CurrentSolves[i])
     /\ CurrentSolves[i].metrics # Null
     /\ CurrentSolves[i].metrics.f2lRotations # Null}

RECURSIVE TotalOver(_, _)
TotalOver(f, S) ==
  IF S = {} THEN 0
  ELSE LET i == CHOOSE j \in S : TRUE IN f[i] + TotalOver(f, S \ {i})

\* Sum of one phase over the results with splits, in thousandths of a
\* millisecond, and of the rotation counts over the results that have one
PhaseSum(phase) == TotalOver([i \in WithSplits |-> CurrentSolves[i].splits[phase]], WithSplits)
RotationSum ==
  TotalOver([i \in WithRotations |-> CurrentSolves[i].metrics.f2lRotations[1]], WithRotations)

\* The status a phase row must show against a target <<a, b>> in seconds
PhaseVerdict(phase, target) ==
  IF WithSplits = {} THEN "-"
  ELSE IF PhaseSum(phase) * target[2] <= target[1] * Cardinality(WithSplits) * 1000000
  THEN "pass" ELSE "fail"

\* The status the rotations row must show against a target <<a, b>>
RotationVerdict(target) ==
  IF WithRotations = {} THEN "-"
  ELSE IF RotationSum * target[2] <= target[1] * Cardinality(WithRotations)
  THEN "pass" ELSE "fail"

\* The goal table was just written: by the #showGoals click or a change of
\* #goalSelect
GoalStep == showGoals \/ goalSelectChange(GoalKeys)

VerdictsShown ==
  goalSelect # "" =>
    /\ goalTable.cross.status = PhaseVerdict("cross", GOALS[goalSelect].cross)
    /\ goalTable.f2l.status = PhaseVerdict("f2l", GOALS[goalSelect].f2l)
    /\ goalTable.ll.status = PhaseVerdict("ll", GOALS[goalSelect].ll)
    /\ goalTable.rotations.status = RotationVerdict(GOALS[goalSelect].rotations)

\* C29: when the goal table is written with a goal selected, each row whose
\* aggregate exists (a result of the current session carries splits, or the
\* rotation count) shows pass if the average is at most the target and fail
\* otherwise, and a row shows 'no data' exactly when no result carries the
\* aggregate; an average of exactly 0 is a pass.
C29_GoalRowsPassFailOrNoData ==
  [][ GoalStep => VerdictsShown' ]_vars

\* v is the quotient sum / per rounded to the nearest whole
Nearest(v, sum, per) ==
  /\ 2 * (v * per - sum) <= per
  /\ 2 * (sum - v * per) <= per

\* The average a phase row shows is the mean over the results with splits, in
\* hundredths of a second; nothing is shown without such a result
PhaseAverageShown(row, phase) ==
  IF WithSplits = {} THEN row.shown = Null
  ELSE PhaseSum(phase) > 0 =>
         /\ row.shown # Null
         /\ Nearest(row.shown[1], PhaseSum(phase), Cardinality(WithSplits) * 10000)

\* The average the rotations row shows is the mean over the results with a
\* rotation count, in tenths
RotationAverageShown(row) ==
  IF WithRotations = {} THEN row.shown = Null
  ELSE RotationSum > 0 =>
         /\ row.shown # Null
         /\ Nearest(row.shown[1], RotationSum * 10, Cardinality(WithRotations))

GoalAveragesShown ==
  goalSelect # "" =>
    /\ PhaseAverageShown(goalTable.cross, "cross")
    /\ PhaseAverageShown(goalTable.f2l, "f2l")
    /\ PhaseAverageShown(goalTable.ll, "ll")
    /\ RotationAverageShown(goalTable.rotations)

AnalyticsAveragesShown ==
  Len(CurrentSolves) > 0 =>
    /\ IF WithSplits = {} THEN analyticsContent.phases = Null
       ELSE analyticsContent.phases =
              [avgCross |-> <<PhaseSum("cross"), Cardinality(WithSplits)>>,
               avgF2L |-> <<PhaseSum("f2l"), Cardinality(WithSplits)>>,
               avgLL |-> <<PhaseSum("ll"), Cardinality(WithSplits)>>]
    /\ IF WithRotations = {} THEN analyticsContent.avgRot = Null
       ELSE /\ analyticsContent.avgRot # Null
            /\ Nearest(analyticsContent.avgRot[1], RotationSum * 10,
                       Cardinality(WithRotations))

PenaltyStep == setPenalty \/ applyPenaltyToLastSolve

\* The positions <<i, j>> of the stored results
ResultPositions ==
  {p \in (1..Len(sessions)) \X (1..5) : p[2] <= Len(sessions[p[1]].solves)}

\* C31: a penalty command never changes the penalty of a result that already
\* has one (+2 or DNF, given at creation or by an earlier command).
C31_PenaltySetOnce ==
  [][ PenaltyStep =>
        \A p \in ResultPositions :
          sessions[p[1]].solves[p[2]].penalty # "none"
            => sessions'[p[1]].solves[p[2]].penalty = sessions[p[1]].solves[p[2]].penalty ]_vars

\* The positions whose result differs after the step
ChangedPositions == {p \in ResultPositions : sessions'[p[1]].solves[p[2]] # sessions[p[1]].solves[p[2]]}

\* The position a penalty command addresses: the first result of the current
\* session with the edited id (none when no result has it), respectively the
\* last result
EditedPosition ==
  LET k == getCurrentSession(sessions, currentSessionId)
  IN {p \in ResultPositions :
        /\ p[1] = k
        /\ sessions[k].solves[p[2]].id = EditedId
        /\ \A h \in 1..(p[2] - 1) : sessions[k].solves[h].id # EditedId}

LastPosition ==
  LET k == getCurrentSession(sessions, currentSessionId)
  IN <<k, Len(sessions[k].solves)>>

\* Same sessions with the same number of results each
SameShape ==
  /\ Len(sessions') = Len(sessions)
  /\ \A i \in 1..Len(sessions) :
       /\ sessions'[i].id = sessions[i].id
       /\ Len(sessions'[i].solves) = Len(sessions[i].solves)

\* C32: a penalty command leaves the duration, the scramble and every other
\* field but the penalty of every stored result as it was, and changes the
\* penalty of at most the one result it addresses: the edited one for the
\* dialog buttons, the last of the current session for the keys; no step that
\* keeps the sessions and their lengths changes a duration or scramble; +2 counts
\* 2000 ms on top of the unchanged duration, and without penalty the
\* effective time is the duration again.
C32_PenaltyOnlyFieldChanged ==
  [][ /\ PenaltyStep =>
           /\ SameShape
           /\ \A p \in ResultPositions :
                [sessions'[p[1]].solves[p[2]] EXCEPT !.penalty = "none"]
                  = [sessions[p[1]].solves[p[2]] EXCEPT !.penalty = "none"]
           /\ \A p \in ResultPositions :
                LET r == sessions'[p[1]].solves[p[2]]
                IN /\ r.penalty = "+2" => getEffectiveTime(r) = sessions[p[1]].solves[p[2]].time + 2000
                   /\ r.penalty = "none" => getEffectiveTime(r) = sessions[p[1]].solves[p[2]].time
      /\ SameShape =>
           \A p \in ResultPositions :
             /\ sessions'[p[1]].solves[p[2]].time = sessions[p[1]].solves[p[2]].time
             /\ sessions'[p[1]].solves[p[2]].scramble = sessions[p[1]].solves[p[2]].scramble
      /\ setPenalty => ChangedPositions \subseteq EditedPosition
      /\ applyPenaltyToLastSolve => ChangedPositions \subseteq {LastPosition} ]_vars

\* The second of five results was given +2 through the dialog and the
\* penalty was then removed from it: the others are as imported
C32_Witness ==
  /\ Len(sessions) = 2
  /\ currentSessionId = 5
  /\ editingSolveId = <<12>>
  /\ Len(sessions[1].solves) = 5
  /\ sessions[1].solves[2].penalty = "+2"
  /\ sessions[1].solves[2].time = 12000
  /\ sessions[1].solves[1].penalty = "+2"
  /\ sessions[1].solves[3].penalty = "DNF"
  /\ sessions[1].solves[4].penalty = "none"
  /\ sessions[1].solves[5].penalty = "none"


\* C33: moving a divider leaves every stored result, and so its splits, as it
\* was, and a result stored with splits carries the ratios in force when it is
\* stored.
C33_SplitsAreSnapshots ==
  [][ /\ dragMove(CoarseClientXs, TrackRects) =>
           /\ sessions' = sessions
           /\ storage' = storage
      /\ (AppendsToCurrent /\ Appended # Null /\ Appended.splits # Null) =>
           Appended.splits = Splits(Appended.time, meshSplits) ]_vars

\* A stored result keeps the splits of the ratios 0.2 / 0.45 after the first
\* divider was moved
C33_Witness ==
  /\ meshSplits[1] # 200
  /\ \E j \in 1..Len(sessions[1].solves) :
       LET r == sessions[1].solves[j]
       IN /\ r # Null
          /\ r.splits # Null
          /\ r.time > 0
          /\ r.splits.cross = r.time * 200
          /\ r.splits.f2l = r.time * 450


ScrambleTokens == { <<moves[f]>> \o modifiers[m] : f \in 1..Len(moves), m \in 1..Len(modifiers) }

\* What holds of the tokens pushed so far: each is a face with a modifier, and
\* the last two neither turn the same face nor two faces of one axis
ScrambleShape ==
  /\ scrambler.pushed \in 0..ScrambleLength
  /\ scrambler.pushed >= 1 => scrambler.token \in ScrambleTokens
  /\ scrambler.pushed >= 2 =>
       /\ scrambler.before \in ScrambleTokens
       /\ scrambler.token[1] # scrambler.before[1]
       /\ getAxis(scrambler.token[1]) # getAxis(scrambler.before[1])
  /\ scrambler.pc = "done" => scrambler.pushed = ScrambleLength

\* C34: under fair random choice every call of generateScramble returns, with
\* exactly 20 tokens pushed, each one of the six faces with one of the three
\* modifiers, and no token turns the face or the axis of the token before it.
C34_ScrambleShapeAndTermination ==
  /\ []ScrambleShape
  /\ [][scramblePush =>
          /\ scrambler'.pushed = scrambler.pushed + 1
          /\ scrambler'.before = scrambler.token]_vars
  /\ (scrambler.pc = "for" /\ scrambler.i = 0) ~> (scrambler.pc = "done")

\* A call has returned after a redraw, its last two tokens being U' and R2
C34_Witness ==
  /\ scrambler.pc = "done"
  /\ scrambler.pushed = 20
  /\ scrambler.before = <<"U", "'">>
  /\ scrambler.token = <<"R", "2">>
  /\ currentScramble = "U' R2"


\* The id of the session edit dialog matches no session
UnknownSessionEdited ==
  editingSessionId = Null \/ FindSession(sessions, editingSessionId[1]) = 0

\* The id of the result dialog matches no result of the current session
UnknownResultEdited ==
  LET k == getCurrentSession(sessions, currentSessionId)
  IN k = 0 \/ FindSolve(sessions[k].solves, EditedId) <= 0

RenameStep == saveSessionEdit(NewNames)

DeleteSessionStep ==
  confirmCallback # Null /\ confirmCallback.op = "deleteSession" /\ confirmOk

DeleteResultStep ==
  \/ ~settings.confirmDelete /\ deleteCurrentSolve
  \/ confirmCallback # Null /\ confirmCallback.op = "deleteSolve" /\ confirmOk

\* C35: renaming or deleting a session whose id matches no session, and
\* deleting a result whose id matches no result of the current session, leave
\* the sessions, their results, the current session id and the stored document
\* as they were.
C35_UnknownIdIsNoOp ==
  [][ ( \/ UnknownSessionEdited /\ (RenameStep \/ DeleteSessionStep)
        \/ UnknownResultEdited /\ DeleteResultStep )
      => /\ sessions' = sessions
         /\ currentSessionId' = currentSessionId
         /\ storage' = storage ]_vars

\* Both dialogs point at something that is gone: the session dialog edits
\* session 1, which an import replaced, the result dialog edits result 15,
\* which Delete removed, and the deletion of that result awaits confirmation
C35_Witness ==
  /\ editingSessionId = <<1>>
  /\ UnknownSessionEdited
  /\ "sessionEdit" \in openModals
  /\ Len(sessions) = 2
  /\ currentSessionId = 5
  /\ editingSolveId = <<15>>
  /\ UnknownResultEdited
  /\ Len(sessions[1].solves) = 4
  /\ "solveEdit" \in openModals
  /\ "confirm" \in openModals
  /\ confirmCallback # Null
  /\ confirmCallback.op = "deleteSolve"


\* The confirmed callback of #clearHistory, with a current session to clear
ClearStep ==
  /\ confirmCallback # Null
  /\ confirmCallback.op = "clearHistory"
  /\ getCurrentSession(sessions, currentSessionId) # 0
  /\ confirmOk

\* C36: the confirmed clearing of the history empties the results of the
\* current session, which keeps its id, name, type and position and stays
\* current; every other session is as it was, and the statistics show no data.
C36_ClearHistoryEmptiesCurrentOnly ==
  [][ ClearStep =>
        LET k == getCurrentSession(sessions, currentSessionId) IN
        /\ Len(sessions') = Len(sessions)
        /\ currentSessionId' = currentSessionId
        /\ sessions'[k].solves = <<>>
        /\ sessions'[k].id = sessions[k].id
        /\ sessions'[k].name = sessions[k].name
        /\ sessions'[k].type = sessions[k].type
        /\ \A i \in 1..Len(sessions) : i # k => sessions'[i] = sessions[i]
        /\ stats' = NoStats
        /\ storage'.sessions = JsonSessions(sessions') ]_vars

\* Session 5 of five results was cleared while current; session 6 keeps its
\* result, and the statistics panel shows no data
C36_Witness ==
  /\ Len(sessions) = 2
  /\ currentSessionId = 5
  /\ sessions[1].id = 5
  /\ sessions[1].name = <<"Normal", 1>>
  /\ sessions[1].type = "normal"
  /\ sessions[1].solves = <<>>
  /\ sessions[2].id = 6
  /\ sessions[2].solves = << StoredSolve(16, 8000, "none", FALSE) >>
  /\ stats = NoStats
  /\ confirmCallback = Null
  /\ "confirm" \notin openModals


\* The results of the current session, <<>> without one
CurrentResults(ss, cid) ==
  LET k == getCurrentSession(ss, cid) IN IF k = 0 THEN <<>> ELSE ss[k].solves

\* The last result is removed: Delete / Backspace without confirmation, or the
\* confirmed callback of deleteLastSolve
LastRemovalStep ==
  \/ ~settings.confirmDelete /\ deleteLastSolve
  \/ confirmCallback # Null /\ confirmCallback.op = "deleteLast" /\ confirmOk

\* The edited result is removed: #deleteSolve without confirmation, or the
\* confirmed callback of deleteCurrentSolve, with a result of the edited id
EditedRemovalStep ==
  /\ ~UnknownResultEdited
  /\ \/ ~settings.confirmDelete /\ deleteCurrentSolve
     \/ confirmCallback # Null /\ confirmCallback.op = "deleteSolve" /\ confirmOk

\* Every session but the current one is as it was, and so is the selection
OthersKept ==
  /\ Len(sessions') = Len(sessions)
  /\ currentSessionId' = currentSessionId
  /\ \A i \in 1..Len(sessions) :
       i # getCurrentSession(sessions, currentSessionId) => sessions'[i] = sessions[i]

C38_IdsUnique ==
  /\ \A i, j \in 1..Len(sessions) : i # j => sessions[i].id # sessions[j].id
  /\ \A k \in 1..Len(sessions) :
       \A i, j \in 1..Len(sessions[k].solves) :
         (i # j /\ IsSolve(sessions[k].solves[i]) /\ IsSolve(sessions[k].solves[j]))
           => sessions[k].solves[i].id # sessions[k].solves[j].id


\* C39: every element of every session's results is a result, with a number
\* as its duration.
C39_EveryResultWellFormed ==
  \A k \in 1..Len(sessions) :
    \A j \in 1..Len(sessions[k].solves) :
      /\ IsSolve(sessions[k].solves[j])
      /\ sessions[k].solves[j].time \in Nat


\* C40: the countdown starts at 15, a tick takes exactly 1 from it, it stays
\* within 0..15, the tick that brings it to 0 clears the countdown interval
\* and starts the timer, and under fair delivery of the ticks every
\* inspection leads to a running timer.
C40_InspectionCountdown ==
  /\ [](inspectionTime \in 0..InspectionStart)
  /\ [][(timerState # "inspection" /\ timerState' = "inspection")
          => inspectionTime' = InspectionStart]_vars
  /\ [][inspectionTick =>
          /\ timerState = "inspection"
          /\ inspectionTime' = inspectionTime - 1
          /\ IF inspectionTime' = 0
             THEN /\ inspectionIntervalId' = Null
                  /\ activeIntervals'.inspection = 0
                  /\ timerState' = "running"
                  /\ intervalId' # Null
             ELSE /\ timerState' = "inspection"
                  /\ inspectionIntervalId' = inspectionIntervalId]_vars
  /\ (timerState = "inspection") ~> (timerState = "running")

\* The countdown has expired: it stands at 0, its interval is gone and the
\* timer runs on its own interval
C40_Witness ==
  /\ inspectionToggle
  /\ inspectionTime = 0
  /\ timerState = "running"
  /\ inspectionIntervalId = Null
  /\ activeIntervals = [timer |-> 1, inspection |-> 0]
  /\ intervalId # Null

====
